---- MODULE Spec2Model ----
(***************************************************************************)
(* Call sheet extractor: the document router (DocumentProcessingService    *)
(* and its five processors) and the normalization engine                   *)
(* (NormalizationService with its phone, name and role normalizers and     *)
(* the Deduplicator).                                                      *)
(*                                                                         *)
(* JavaScript strings are sequences of one-character strings, so that      *)
(* trimming, case conversion, splitting and formatting are computed and    *)
(* not assumed.  null is the value Null.                                   *)
(***************************************************************************)
EXTENDS Integers, Sequences, FiniteSets, TLC

----------------------------------------------------------------------------
(* JavaScript values *)

\* null / undefined string-valued property
Null == <<"NULL">>

\* a truthy value that is not a string: what a plain-object lookup returns
\* for a key inherited from Object.prototype
PlainObject == <<"OBJECT">>

\* a function object, also truthy and not a string; JSON.stringify omits it
FunctionObject == <<"FUNCTION">>

\* an absent numeric property (undefined)
Undefined == -1

\* the outcome of a call that throws
Raise == <<"THROW">>

IsString(v) == v \notin {Null, PlainObject, FunctionObject, Raise}

\* !v for a string-or-null value
Falsy(v) == v = Null \/ v = <<>>

----------------------------------------------------------------------------
(* String primitives *)

UpperLetters ==
  <<"A","B","C","D","E","F","G","H","I","J","K","L","M",
    "N","O","P","Q","R","S","T","U","V","W","X","Y","Z">>

LowerLetters ==
  <<"a","b","c","d","e","f","g","h","i","j","k","l","m",
    "n","o","p","q","r","s","t","u","v","w","x","y","z">>

DigitChars == {"0","1","2","3","4","5","6","7","8","9"}

\* the characters matched by \s that the inputs use
WhiteSpace == {" ", "\t", "\n"}

IsDigit(c) == c \in DigitChars

IsUpper(c) == \E i \in 1..26 : UpperLetters[i] = c

IsLower(c) == \E i \in 1..26 : LowerLetters[i] = c

\* [a-zA-Z]
IsLetter(c) == IsUpper(c) \/ IsLower(c)

\* a function over 1..n as the tuple of its values
Tuple(f) == f \o <<>>

Min(S) == CHOOSE x \in S : \A y \in S : x <= y

\* the greatest element, found as the least of the negated ones
Max(S) == 0 - Min({0 - x : x \in S})

toLowerChar(c) ==
  IF IsUpper(c) THEN LowerLetters[CHOOSE i \in 1..26 : UpperLetters[i] = c] ELSE c

toUpperChar(c) ==
  IF IsLower(c) THEN UpperLetters[CHOOSE i \in 1..26 : LowerLetters[i] = c] ELSE c

toLowerCase(s) == Tuple([i \in 1..Len(s) |-> toLowerChar(s[i])])

\* the ligature fi (U+FB01): one character that is its own lower case and
\* whose upper case is the two characters FI
LigatureFi == "U+FB01"

\* String.prototype.toUpperCase
RECURSIVE toUpperCase(_)
toUpperCase(s) ==
  IF s = <<>> THEN <<>>
  ELSE (IF s[1] = LigatureFi THEN <<"F", "I">> ELSE <<toUpperChar(s[1])>>)
         \o toUpperCase(Tail(s))

\* String.prototype.trim
trim(s) ==
  LET keep == {i \in 1..Len(s) : s[i] \notin WhiteSpace}
  IN  IF keep = {} THEN <<>> ELSE SubSeq(s, Min(keep), Max(keep))

\* s.replace(/\s+/g, " ")
RECURSIVE CollapseSpaces(_)
CollapseSpaces(s) ==
  IF s = <<>> THEN <<>>
  ELSE IF s[1] \in WhiteSpace
       THEN LET rest == {i \in 2..Len(s) : s[i] \notin WhiteSpace}
            IN  IF rest = {} THEN <<" ">>
                ELSE <<" ">> \o CollapseSpaces(SubSeq(s, Min(rest), Len(s)))
       ELSE <<s[1]>> \o CollapseSpaces(Tail(s))

\* s.replace(/\D/g, "")
DigitsOf(s) == SelectSeq(s, IsDigit)

IsDigitOrPlus(c) == IsDigit(c) \/ c = "+"

\* String.prototype.split with a one-character separator
RECURSIVE split(_, _)
split(s, sep) ==
  LET at == {i \in 1..Len(s) : s[i] = sep}
  IN  IF at = {} THEN <<s>>
      ELSE <<SubSeq(s, 1, Min(at) - 1)>> \o split(SubSeq(s, Min(at) + 1, Len(s)), sep)

\* Array.prototype.join
RECURSIVE join(_, _)
join(parts, sep) ==
  IF Len(parts) = 0 THEN <<>>
  ELSE IF Len(parts) = 1 THEN parts[1]
  ELSE parts[1] \o sep \o join(Tail(parts), sep)

startsWith(s, p) == Len(s) >= Len(p) /\ SubSeq(s, 1, Len(p)) = p

endsWith(s, p) == Len(s) >= Len(p) /\ SubSeq(s, Len(s) - Len(p) + 1, Len(s)) = p

includes(s, sub) ==
  \E i \in 0..(Len(s) - Len(sub)) : SubSeq(s, i + 1, i + Len(sub)) = sub

\* s.substring(from) with 0-based from
substringFrom(s, from) == SubSeq(s, from + 1, Len(s))

\* s.substring(from, to) with 0-based from, exclusive to
substring(s, from, to) == SubSeq(s, from + 1, IF to > Len(s) THEN Len(s) ELSE to)

----------------------------------------------------------------------------
(* PhoneNormalizer *)

formatUS(digits) ==
  LET areaCode   == substring(digits, 0, 3)
      exchange   == substring(digits, 3, 6)
      subscriber == substring(digits, 6, 10)
  IN  <<"(">> \o areaCode \o <<")", " ">> \o exchange \o <<"-">> \o subscriber

\* normalize with the 11-digit branch taken whatever the first digit is
PhoneNormalizer_normalize_any11(phone) ==
  IF Falsy(phone) THEN Null
  ELSE LET kept    == SelectSeq(phone, IsDigitOrPlus)
           digits  == DigitsOf(kept)
       IN  IF Len(digits) = 0 THEN Null
           ELSE IF Len(digits) = 10 THEN formatUS(digits)
           ELSE IF Len(digits) = 11 THEN formatUS(substringFrom(digits, 1))
           ELSE IF Len(digits) > 11 THEN <<"+">> \o digits
           ELSE IF Len(digits) = 7
                THEN substring(digits, 0, 3) \o <<"-">> \o substringFrom(digits, 3)
           ELSE digits

PhoneNormalizer_normalize(phone) ==
  IF Falsy(phone) THEN Null
  ELSE LET kept    == SelectSeq(phone, IsDigitOrPlus)
           hasPlus == startsWith(kept, <<"+">>)
           digits  == DigitsOf(kept)
       IN  IF Len(digits) = 0 THEN Null
           ELSE IF Len(digits) = 10 THEN formatUS(digits)
           ELSE IF Len(digits) = 11 /\ startsWith(digits, <<"1">>)
                THEN formatUS(substringFrom(digits, 1))
           ELSE IF Len(digits) > 11 THEN <<"+">> \o digits
           ELSE IF Len(digits) = 7
                THEN substring(digits, 0, 3) \o <<"-">> \o substringFrom(digits, 3)
           ELSE digits

PhoneNormalizer_isValid(phone) ==
  IF Falsy(phone) THEN FALSE
  ELSE LET digits == DigitsOf(phone)
       IN  Len(digits) >= 7 /\ Len(digits) <= 15

----------------------------------------------------------------------------
(* NameNormalizer *)

lowercaseWords ==
  { <<"d","e">>, <<"d","e","l">>, <<"d","e","l","l","a">>, <<"d","i">>,
    <<"d","a">>, <<"v","a","n">>, <<"v","o","n">>, <<"d","e","r">>,
    <<"d","e","n">>, <<"l","a">>, <<"l","e">>, <<"d","u">> }

specialPrefixes == << <<"m","c">>, <<"m","a","c">>, <<"o","'">> >>

\* word.charAt(0).toUpperCase() + word.slice(1).toLowerCase()
capitalize(word) ==
  IF word = <<>> THEN word
  ELSE toUpperCase(<<word[1]>>) \o toLowerCase(Tail(word))

capitalizeAll(parts) == Tuple([i \in 1..Len(parts) |-> capitalize(parts[i])])

\* the callback with the particle test applied to the first word as well
NormalizeWord_anyIndex(word, index) ==
  IF word = <<>> THEN word
  ELSE
    LET lowerWord == toLowerCase(word)
        hits == {k \in 1..Len(specialPrefixes) :
                   /\ startsWith(lowerWord, specialPrefixes[k])
                   /\ Len(lowerWord) > Len(specialPrefixes[k])}
    IN  IF hits # {}
        THEN LET prefix == specialPrefixes[Min(hits)]
                 rest   == substringFrom(word, Len(prefix))
             IN  IF prefix = <<"o","'">>
                 THEN <<"O","'">> \o capitalize(rest)
                 ELSE capitalize(prefix) \o capitalize(rest)
        ELSE IF lowerWord \in lowercaseWords THEN lowerWord
        ELSE IF includes(word, <<"-">>)
             THEN join(capitalizeAll(split(word, "-")), <<"-">>)
        ELSE capitalize(word)

\* the callback of words.map
NormalizeWord(word, index) ==
  IF word = <<>> THEN word
  ELSE
    LET lowerWord == toLowerCase(word)
        hits == {k \in 1..Len(specialPrefixes) :
                   /\ startsWith(lowerWord, specialPrefixes[k])
                   /\ Len(lowerWord) > Len(specialPrefixes[k])}
    IN  IF hits # {}
        THEN LET prefix == specialPrefixes[Min(hits)]
                 rest   == substringFrom(word, Len(prefix))
             IN  IF prefix = <<"o","'">>
                 THEN <<"O","'">> \o capitalize(rest)
                 ELSE capitalize(prefix) \o capitalize(rest)
        ELSE IF index > 0 /\ lowerWord \in lowercaseWords THEN lowerWord
        ELSE IF includes(word, <<"-">>)
             THEN join(capitalizeAll(split(word, "-")), <<"-">>)
        ELSE capitalize(word)

NameNormalizer_normalize(name) ==
  IF Falsy(name) THEN Null
  ELSE LET normalized == CollapseSpaces(trim(name))
       IN  IF Len(normalized) = 0 THEN Null
           ELSE LET words == split(normalized, " ")
                IN  join(Tuple([i \in 1..Len(words) |-> NormalizeWord(words[i], i - 1)]),
                         <<" ">>)

NameNormalizer_isValid(name) ==
  IF Falsy(name) THEN FALSE
  ELSE LET trimmed == trim(name)
       IN  Len(trimmed) >= 2 /\ \E i \in 1..Len(trimmed) : IsLetter(trimmed[i])

----------------------------------------------------------------------------
(* RoleNormalizer *)

ROLE_MAPPINGS ==
  <<
    \* "dp": "Director of Photography"
    << <<"d","p">>,
       <<"D","i","r","e","c","t","o","r"," ","o","f"," ","P","h","o","t","o","g","r","a","p","h","y">> >>,
    \* "dop": "Director of Photography"
    << <<"d","o","p">>,
       <<"D","i","r","e","c","t","o","r"," ","o","f"," ","P","h","o","t","o","g","r","a","p","h","y">> >>,
    \* "1st ac": "1st Assistant Camera"
    << <<"1","s","t"," ","a","c">>,
       <<"1","s","t"," ","A","s","s","i","s","t","a","n","t"," ","C","a","m","e","r","a">> >>,
    \* "2nd ac": "2nd Assistant Camera"
    << <<"2","n","d"," ","a","c">>,
       <<"2","n","d"," ","A","s","s","i","s","t","a","n","t"," ","C","a","m","e","r","a">> >>,
    \* "a/c": "Assistant Camera"
    << <<"a","/","c">>,
       <<"A","s","s","i","s","t","a","n","t"," ","C","a","m","e","r","a">> >>,
    \* "ac": "Assistant Camera"
    << <<"a","c">>,
       <<"A","s","s","i","s","t","a","n","t"," ","C","a","m","e","r","a">> >>,
    \* "cam op": "Camera Operator"
    << <<"c","a","m"," ","o","p">>,
       <<"C","a","m","e","r","a"," ","O","p","e","r","a","t","o","r">> >>,
    \* "steadicam": "Steadicam Operator"
    << <<"s","t","e","a","d","i","c","a","m">>,
       <<"S","t","e","a","d","i","c","a","m"," ","O","p","e","r","a","t","o","r">> >>,
    \* "digi tech": "Digital Technician"
    << <<"d","i","g","i"," ","t","e","c","h">>,
       <<"D","i","g","i","t","a","l"," ","T","e","c","h","n","i","c","i","a","n">> >>,
    \* "dit": "Digital Imaging Technician"
    << <<"d","i","t">>,
       <<"D","i","g","i","t","a","l"," ","I","m","a","g","i","n","g"," ","T","e","c","h","n","i","c","i","a","n">> >>,
    \* "gaffer": "Gaffer"
    << <<"g","a","f","f","e","r">>,
       <<"G","a","f","f","e","r">> >>,
    \* "key grip": "Key Grip"
    << <<"k","e","y"," ","g","r","i","p">>,
       <<"K","e","y"," ","G","r","i","p">> >>,
    \* "best boy": "Best Boy"
    << <<"b","e","s","t"," ","b","o","y">>,
       <<"B","e","s","t"," ","B","o","y">> >>,
    \* "best boy electric": "Best Boy Electric"
    << <<"b","e","s","t"," ","b","o","y"," ","e","l","e","c","t","r","i","c">>,
       <<"B","e","s","t"," ","B","o","y"," ","E","l","e","c","t","r","i","c">> >>,
    \* "best boy grip": "Best Boy Grip"
    << <<"b","e","s","t"," ","b","o","y"," ","g","r","i","p">>,
       <<"B","e","s","t"," ","B","o","y"," ","G","r","i","p">> >>,
    \* "grip": "Grip"
    << <<"g","r","i","p">>,
       <<"G","r","i","p">> >>,
    \* "electric": "Electric"
    << <<"e","l","e","c","t","r","i","c">>,
       <<"E","l","e","c","t","r","i","c">> >>,
    \* "ad": "Assistant Director"
    << <<"a","d">>,
       <<"A","s","s","i","s","t","a","n","t"," ","D","i","r","e","c","t","o","r">> >>,
    \* "1st ad": "1st Assistant Director"
    << <<"1","s","t"," ","a","d">>,
       <<"1","s","t"," ","A","s","s","i","s","t","a","n","t"," ","D","i","r","e","c","t","o","r">> >>,
    \* "2nd ad": "2nd Assistant Director"
    << <<"2","n","d"," ","a","d">>,
       <<"2","n","d"," ","A","s","s","i","s","t","a","n","t"," ","D","i","r","e","c","t","o","r">> >>,
    \* "pa": "Production Assistant"
    << <<"p","a">>,
       <<"P","r","o","d","u","c","t","i","o","n"," ","A","s","s","i","s","t","a","n","t">> >>,
    \* "pm": "Production Manager"
    << <<"p","m">>,
       <<"P","r","o","d","u","c","t","i","o","n"," ","M","a","n","a","g","e","r">> >>,
    \* "upm": "Unit Production Manager"
    << <<"u","p","m">>,
       <<"U","n","i","t"," ","P","r","o","d","u","c","t","i","o","n"," ","M","a","n","a","g","e","r">> >>,
    \* "lm": "Location Manager"
    << <<"l","m">>,
       <<"L","o","c","a","t","i","o","n"," ","M","a","n","a","g","e","r">> >>,
    \* "loc manager": "Location Manager"
    << <<"l","o","c"," ","m","a","n","a","g","e","r">>,
       <<"L","o","c","a","t","i","o","n"," ","M","a","n","a","g","e","r">> >>,
    \* "prod designer": "Production Designer"
    << <<"p","r","o","d"," ","d","e","s","i","g","n","e","r">>,
       <<"P","r","o","d","u","c","t","i","o","n"," ","D","e","s","i","g","n","e","r">> >>,
    \* "art director": "Art Director"
    << <<"a","r","t"," ","d","i","r","e","c","t","o","r">>,
       <<"A","r","t"," ","D","i","r","e","c","t","o","r">> >>,
    \* "set dresser": "Set Dresser"
    << <<"s","e","t"," ","d","r","e","s","s","e","r">>,
       <<"S","e","t"," ","D","r","e","s","s","e","r">> >>,
    \* "prop master": "Property Master"
    << <<"p","r","o","p"," ","m","a","s","t","e","r">>,
       <<"P","r","o","p","e","r","t","y"," ","M","a","s","t","e","r">> >>,
    \* "prop stylist": "Prop Stylist"
    << <<"p","r","o","p"," ","s","t","y","l","i","s","t">>,
       <<"P","r","o","p"," ","S","t","y","l","i","s","t">> >>,
    \* "props": "Props"
    << <<"p","r","o","p","s">>,
       <<"P","r","o","p","s">> >>,
    \* "prop asst": "Prop Assistant"
    << <<"p","r","o","p"," ","a","s","s","t">>,
       <<"P","r","o","p"," ","A","s","s","i","s","t","a","n","t">> >>,
    \* "hmu": "Hair & Makeup"
    << <<"h","m","u">>,
       <<"H","a","i","r"," ","&"," ","M","a","k","e","u","p">> >>,
    \* "hmua": "Hair & Makeup Artist"
    << <<"h","m","u","a">>,
       <<"H","a","i","r"," ","&"," ","M","a","k","e","u","p"," ","A","r","t","i","s","t">> >>,
    \* "mua": "Makeup Artist"
    << <<"m","u","a">>,
       <<"M","a","k","e","u","p"," ","A","r","t","i","s","t">> >>,
    \* "hair/makeup": "Hair & Makeup"
    << <<"h","a","i","r","/","m","a","k","e","u","p">>,
       <<"H","a","i","r"," ","&"," ","M","a","k","e","u","p">> >>,
    \* "groomer": "Groomer"
    << <<"g","r","o","o","m","e","r">>,
       <<"G","r","o","o","m","e","r">> >>,
    \* "wardrobe": "Wardrobe Stylist"
    << <<"w","a","r","d","r","o","b","e">>,
       <<"W","a","r","d","r","o","b","e"," ","S","t","y","l","i","s","t">> >>,
    \* "wardrobe asst": "Wardrobe Assistant"
    << <<"w","a","r","d","r","o","b","e"," ","a","s","s","t">>,
       <<"W","a","r","d","r","o","b","e"," ","A","s","s","i","s","t","a","n","t">> >>,
    \* "stylist": "Stylist"
    << <<"s","t","y","l","i","s","t">>,
       <<"S","t","y","l","i","s","t">> >>,
    \* "sound": "Sound Mixer"
    << <<"s","o","u","n","d">>,
       <<"S","o","u","n","d"," ","M","i","x","e","r">> >>,
    \* "audio": "Audio"
    << <<"a","u","d","i","o">>,
       <<"A","u","d","i","o">> >>,
    \* "boom op": "Boom Operator"
    << <<"b","o","o","m"," ","o","p">>,
       <<"B","o","o","m"," ","O","p","e","r","a","t","o","r">> >>,
    \* "sound mixer": "Sound Mixer"
    << <<"s","o","u","n","d"," ","m","i","x","e","r">>,
       <<"S","o","u","n","d"," ","M","i","x","e","r">> >>,
    \* "photo": "Photographer"
    << <<"p","h","o","t","o">>,
       <<"P","h","o","t","o","g","r","a","p","h","e","r">> >>,
    \* "photographer": "Photographer"
    << <<"p","h","o","t","o","g","r","a","p","h","e","r">>,
       <<"P","h","o","t","o","g","r","a","p","h","e","r">> >>,
    \* "photo asst": "Photo Assistant"
    << <<"p","h","o","t","o"," ","a","s","s","t">>,
       <<"P","h","o","t","o"," ","A","s","s","i","s","t","a","n","t">> >>,
    \* "photo assistant": "Photo Assistant"
    << <<"p","h","o","t","o"," ","a","s","s","i","s","t","a","n","t">>,
       <<"P","h","o","t","o"," ","A","s","s","i","s","t","a","n","t">> >>,
    \* "digital tech": "Digital Technician"
    << <<"d","i","g","i","t","a","l"," ","t","e","c","h">>,
       <<"D","i","g","i","t","a","l"," ","T","e","c","h","n","i","c","i","a","n">> >>,
    \* "bts": "Behind The Scenes"
    << <<"b","t","s">>,
       <<"B","e","h","i","n","d"," ","T","h","e"," ","S","c","e","n","e","s">> >>,
    \* "craft services": "Craft Services"
    << <<"c","r","a","f","t"," ","s","e","r","v","i","c","e","s">>,
       <<"C","r","a","f","t"," ","S","e","r","v","i","c","e","s">> >>,
    \* "crafty": "Craft Services"
    << <<"c","r","a","f","t","y">>,
       <<"C","r","a","f","t"," ","S","e","r","v","i","c","e","s">> >>,
    \* "medic": "Set Medic"
    << <<"m","e","d","i","c">>,
       <<"S","e","t"," ","M","e","d","i","c">> >>,
    \* "covid officer": "COVID Compliance Officer"
    << <<"c","o","v","i","d"," ","o","f","f","i","c","e","r">>,
       <<"C","O","V","I","D"," ","C","o","m","p","l","i","a","n","c","e"," ","O","f","f","i","c","e","r">> >>
  >>

DEPARTMENT_KEYWORDS ==
  <<
    \* "Camera": ['camera', 'dp', 'dop', 'ac', 'steadicam', 'dit', 'digi', 'photo', 'photographer']
    << <<"C","a","m","e","r","a">>,
       << <<"c","a","m","e","r","a">>,
          <<"d","p">>,
          <<"d","o","p">>,
          <<"a","c">>,
          <<"s","t","e","a","d","i","c","a","m">>,
          <<"d","i","t">>,
          <<"d","i","g","i">>,
          <<"p","h","o","t","o">>,
          <<"p","h","o","t","o","g","r","a","p","h","e","r">> >> >>,
    \* "Grip & Electric": ['grip', 'gaffer', 'electric', 'best boy', 'lighting']
    << <<"G","r","i","p"," ","&"," ","E","l","e","c","t","r","i","c">>,
       << <<"g","r","i","p">>,
          <<"g","a","f","f","e","r">>,
          <<"e","l","e","c","t","r","i","c">>,
          <<"b","e","s","t"," ","b","o","y">>,
          <<"l","i","g","h","t","i","n","g">> >> >>,
    \* "Production": ['producer', 'production', 'ad', 'assistant director', 'coordinator', 'pm', 'upm']
    << <<"P","r","o","d","u","c","t","i","o","n">>,
       << <<"p","r","o","d","u","c","e","r">>,
          <<"p","r","o","d","u","c","t","i","o","n">>,
          <<"a","d">>,
          <<"a","s","s","i","s","t","a","n","t"," ","d","i","r","e","c","t","o","r">>,
          <<"c","o","o","r","d","i","n","a","t","o","r">>,
          <<"p","m">>,
          <<"u","p","m">> >> >>,
    \* "Art": ['art', 'prop', 'set', 'scenic', 'designer', 'decorator']
    << <<"A","r","t">>,
       << <<"a","r","t">>,
          <<"p","r","o","p">>,
          <<"s","e","t">>,
          <<"s","c","e","n","i","c">>,
          <<"d","e","s","i","g","n","e","r">>,
          <<"d","e","c","o","r","a","t","o","r">> >> >>,
    \* "Hair & Makeup": ['hair', 'makeup', 'hmu', 'mua', 'groomer', 'beauty']
    << <<"H","a","i","r"," ","&"," ","M","a","k","e","u","p">>,
       << <<"h","a","i","r">>,
          <<"m","a","k","e","u","p">>,
          <<"h","m","u">>,
          <<"m","u","a">>,
          <<"g","r","o","o","m","e","r">>,
          <<"b","e","a","u","t","y">> >> >>,
    \* "Wardrobe": ['wardrobe', 'costume', 'stylist']
    << <<"W","a","r","d","r","o","b","e">>,
       << <<"w","a","r","d","r","o","b","e">>,
          <<"c","o","s","t","u","m","e">>,
          <<"s","t","y","l","i","s","t">> >> >>,
    \* "Sound": ['sound', 'audio', 'boom', 'mixer']
    << <<"S","o","u","n","d">>,
       << <<"s","o","u","n","d">>,
          <<"a","u","d","i","o">>,
          <<"b","o","o","m">>,
          <<"m","i","x","e","r">> >> >>,
    \* "Locations": ['location', 'loc manager']
    << <<"L","o","c","a","t","i","o","n","s">>,
       << <<"l","o","c","a","t","i","o","n">>,
          <<"l","o","c"," ","m","a","n","a","g","e","r">> >> >>,
    \* "Transport": ['driver', 'transport', 'picture car']
    << <<"T","r","a","n","s","p","o","r","t">>,
       << <<"d","r","i","v","e","r">>,
          <<"t","r","a","n","s","p","o","r","t">>,
          <<"p","i","c","t","u","r","e"," ","c","a","r">> >> >>,
    \* "Talent": ['talent', 'actor', 'actress', 'model', 'cast']
    << <<"T","a","l","e","n","t">>,
       << <<"t","a","l","e","n","t">>,
          <<"a","c","t","o","r">>,
          <<"a","c","t","r","e","s","s">>,
          <<"m","o","d","e","l">>,
          <<"c","a","s","t">> >> >>,
    \* "Creative": ['director', 'creative', 'writer']
    << <<"C","r","e","a","t","i","v","e">>,
       << <<"d","i","r","e","c","t","o","r">>,
          <<"c","r","e","a","t","i","v","e">>,
          <<"w","r","i","t","e","r">> >> >>,
    \* "Video": ['video', 'editor', 'post']
    << <<"V","i","d","e","o">>,
       << <<"v","i","d","e","o">>,
          <<"e","d","i","t","o","r">>,
          <<"p","o","s","t">> >> >>
  >>

\* ROLE_MAPPINGS is a plain object, so ROLE_MAPPINGS[key] also finds the
\* properties inherited from Object.prototype; the all-lowercase ones are
\* constructor (the function Object) and __proto__ (Object.prototype)
InheritedProperty(key) ==
  IF key = <<"c","o","n","s","t","r","u","c","t","o","r">> THEN FunctionObject
  ELSE IF key = <<"_","_","p","r","o","t","o","_","_">> THEN PlainObject
  ELSE Null

\* word.charAt(0).toUpperCase() + word.slice(1).toLowerCase(), per word
toTitleCase(str) ==
  LET words == split(str, " ")
  IN  join(capitalizeAll(words), <<" ">>)

normalizeRole(role) ==
  IF Falsy(role) THEN Null
  ELSE IF ~IsString(role) THEN Raise
  ELSE
    LET trimmed   == trim(role)
        lowerRole == toLowerCase(trimmed)
        exact     == {k \in 1..Len(ROLE_MAPPINGS) : ROLE_MAPPINGS[k][1] = lowerRole}
        partial   == {k \in 1..Len(ROLE_MAPPINGS) :
                        lowerRole = ROLE_MAPPINGS[k][1]
                        \/ includes(lowerRole, ROLE_MAPPINGS[k][1])}
    IN  IF trimmed = <<>> THEN Null
        ELSE IF exact # {} THEN ROLE_MAPPINGS[Min(exact)][2]
        ELSE IF InheritedProperty(lowerRole) # Null THEN InheritedProperty(lowerRole)
        ELSE IF partial # {} THEN ROLE_MAPPINGS[Min(partial)][2]
        ELSE toTitleCase(trimmed)

inferDepartment_lastHit(role, existingDepartment) ==
  IF ~Falsy(existingDepartment) /\ trim(existingDepartment) # <<>>
  THEN existingDepartment
  ELSE IF Falsy(role) THEN Null
  ELSE IF ~IsString(role) THEN Raise
  ELSE
    LET lowerRole == toLowerCase(role)
        hits == {d \in 1..Len(DEPARTMENT_KEYWORDS) :
                   \E k \in 1..Len(DEPARTMENT_KEYWORDS[d][2]) :
                      includes(lowerRole, DEPARTMENT_KEYWORDS[d][2][k])}
    IN  IF hits # {} THEN DEPARTMENT_KEYWORDS[Max(hits)][1] ELSE Null

inferDepartment(role, existingDepartment) ==
  IF ~Falsy(existingDepartment) /\ trim(existingDepartment) # <<>>
  THEN existingDepartment
  ELSE IF Falsy(role) THEN Null
  ELSE IF ~IsString(role) THEN Raise
  ELSE
    LET lowerRole == toLowerCase(role)
        hits == {d \in 1..Len(DEPARTMENT_KEYWORDS) :
                   \E k \in 1..Len(DEPARTMENT_KEYWORDS[d][2]) :
                      includes(lowerRole, DEPARTMENT_KEYWORDS[d][2][k])}
    IN  IF hits # {} THEN DEPARTMENT_KEYWORDS[Min(hits)][1] ELSE Null

----------------------------------------------------------------------------
(* Deduplicator *)

\* a || b
OrElse(a, b) == IF Falsy(a) THEN b ELSE a

\* the phone joins the key only from 8 digits on
generateKey_over7(contact) ==
  LET normalizedName  == CollapseSpaces(trim(toLowerCase(contact.name)))
      normalizedPhone == IF contact.phone = Null THEN <<>> ELSE DigitsOf(contact.phone)
      normalizedEmail == IF contact.email = Null THEN <<>>
                         ELSE trim(toLowerCase(contact.email))
  IN  IF Len(normalizedPhone) > 7 THEN normalizedName \o <<"|">> \o normalizedPhone
      ELSE IF normalizedEmail # <<>> THEN normalizedName \o <<"|">> \o normalizedEmail
      ELSE normalizedName

generateKey(contact) ==
  LET normalizedName  == CollapseSpaces(trim(toLowerCase(contact.name)))
      normalizedPhone == IF contact.phone = Null THEN <<>> ELSE DigitsOf(contact.phone)
      normalizedEmail == IF contact.email = Null THEN <<>>
                         ELSE trim(toLowerCase(contact.email))
  IN  IF Len(normalizedPhone) >= 7 THEN normalizedName \o <<"|">> \o normalizedPhone
      ELSE IF normalizedEmail # <<>> THEN normalizedName \o <<"|">> \o normalizedEmail
      ELSE normalizedName

mergeNotes(existing, newNotes) ==
  IF Falsy(existing) /\ Falsy(newNotes) THEN Null
  ELSE IF Falsy(existing) THEN newNotes
  ELSE IF Falsy(newNotes) THEN existing
  ELSE IF existing = newNotes THEN existing
  ELSE existing \o <<";", " ">> \o newNotes

\* the object literal has no confidence property
mergeContacts(existing, newContact) ==
  [ name       |-> OrElse(existing.name, newContact.name),
    role       |-> OrElse(existing.role, newContact.role),
    department |-> OrElse(existing.department, newContact.department),
    phone      |-> OrElse(existing.phone, newContact.phone),
    email      |-> OrElse(existing.email, newContact.email),
    notes      |-> mergeNotes(existing.notes, newContact.notes),
    confidence |-> Undefined ]

\* mergedMap is a Map: a sequence of entries in insertion order; set() on a
\* present key replaces the value and keeps the position
RECURSIVE DedupLoop(_, _, _, _)
DedupLoop(contacts, i, mergedMap, removedCount) ==
  IF i > Len(contacts)
  THEN [ contacts     |-> Tuple([k \in 1..Len(mergedMap) |-> mergedMap[k].value]),
         removedCount |-> removedCount ]
  ELSE
    LET contact == contacts[i]
        key     == generateKey(contact)
        at      == {k \in 1..Len(mergedMap) : mergedMap[k].key = key}
    IN  IF at # {}
        THEN LET k == Min(at)
                 merged == mergeContacts(mergedMap[k].value, contact)
             IN  DedupLoop(contacts, i + 1,
                           [mergedMap EXCEPT ![k] = [key |-> key, value |-> merged]],
                           removedCount + 1)
        ELSE DedupLoop(contacts, i + 1,
                       Append(mergedMap, [key |-> key, value |-> contact]),
                       removedCount)

\* deduplicate that counts nothing as removed
deduplicate_noCount(contacts) ==
  IF Len(contacts) = 0 THEN [contacts |-> <<>>, removedCount |-> 0]
  ELSE [DedupLoop(contacts, 1, <<>>, 0) EXCEPT !.removedCount = 0]

deduplicate(contacts) ==
  IF Len(contacts) = 0 THEN [contacts |-> <<>>, removedCount |-> 0]
  ELSE DedupLoop(contacts, 1, <<>>, 0)

----------------------------------------------------------------------------
(* NormalizationService *)

DEFAULT_CONFIG ==
  [ normalizePhones  |-> TRUE,
    normalizeNames   |-> TRUE,
    normalizeRoles   |-> TRUE,
    inferDepartments |-> TRUE,
    deduplicate      |-> TRUE ]

\* /^[^\s@]+@[^\s@]+\.[^\s@]+$/
isValidEmail(email) ==
  /\ \A k \in 1..Len(email) : email[k] \notin WhiteSpace
  /\ Cardinality({k \in 1..Len(email) : email[k] = "@"}) = 1
  /\ \E i, j \in 1..Len(email) :
        /\ email[i] = "@"
        /\ email[j] = "."
        /\ 1 < i
        /\ i + 1 < j
        /\ j < Len(email)

Issue(field, contactName, value) ==
  [type |-> "warning", field |-> field, contactName |-> contactName, value |-> value]

\* the element of a one-element set: Only({e}) is the value of e
Only(S) == CHOOSE x \in S : TRUE

\* the callback of result.contacts.map: the contact as the callback leaves it,
\* the counters it incremented, the issues it pushed, and whether it threw
NormalizeContact(contact, config) ==
  LET originalName == contact.name
      doPhone == config.normalizePhones /\ ~Falsy(contact.phone)
      doRole  == config.normalizeRoles /\ ~Falsy(contact.role)
      \* Normalize email to lowercase
      Email(name1, phone1, role1, department1, counts, issues, threw) ==
        LET doEmail == ~threw /\ ~Falsy(contact.email)
        IN  Only({ [ contact |-> [ name       |-> name1,
                                   role       |-> role1,
                                   department |-> department1,
                                   phone      |-> phone1,
                                   email      |-> email1,
                                   notes      |-> contact.notes,
                                   confidence |-> contact.confidence ],
                     namesNormalized     |-> counts[1],
                     phonesNormalized    |-> counts[2],
                     rolesNormalized     |-> counts[3],
                     departmentsInferred |-> counts[4],
                     issues |-> issues \o (IF doEmail /\ ~isValidEmail(email1)
                                           THEN <<Issue("email", name1, email1)>>
                                           ELSE <<>>),
                     threw  |-> threw ]
                   : email1 \in {IF doEmail THEN trim(toLowerCase(contact.email))
                                 ELSE contact.email} })
      \* Infer department
      Department(name1, phone1, role1, counts, issues, roleThrows) ==
        Only({ LET deptThrows   == /\ ~roleThrows
                                   /\ config.inferDepartments
                                   /\ inferredDepartment = Raise
                   deptInferred == /\ config.inferDepartments
                                   /\ ~roleThrows
                                   /\ ~deptThrows
                                   /\ ~Falsy(inferredDepartment)
                                   /\ Falsy(contact.department)
               IN  Email(name1, phone1, role1,
                         IF deptInferred THEN inferredDepartment ELSE contact.department,
                         <<counts[1], counts[2], counts[3], IF deptInferred THEN 1 ELSE 0>>,
                         issues, roleThrows \/ deptThrows)
                 : inferredDepartment \in
                     {IF config.inferDepartments /\ ~roleThrows
                      THEN inferDepartment(role1, contact.department)
                      ELSE Null} })
      Fields(normalizedName, normalizedPhone, normalizedRole) ==
        LET \* Normalize name
            nameChanged == /\ config.normalizeNames
                           /\ ~Falsy(normalizedName)
                           /\ normalizedName # contact.name
            name1 == IF nameChanged THEN normalizedName ELSE contact.name
            nameIssues == IF config.normalizeNames /\ ~NameNormalizer_isValid(name1)
                          THEN <<Issue("name", originalName, name1)>> ELSE <<>>
            \* Normalize phone
            phoneChanged == doPhone /\ normalizedPhone # contact.phone
            phone1 == IF phoneChanged THEN normalizedPhone ELSE contact.phone
            phoneIssues == IF doPhone /\ ~Falsy(phone1) /\ ~PhoneNormalizer_isValid(phone1)
                           THEN <<Issue("phone", name1, phone1)>> ELSE <<>>
            \* Normalize role
            roleThrows == doRole /\ normalizedRole = Raise
            roleChanged == /\ doRole
                           /\ ~roleThrows
                           /\ ~Falsy(normalizedRole)
                           /\ normalizedRole # contact.role
            role1 == IF roleChanged THEN normalizedRole ELSE contact.role
        IN  Only({ Department(name1, phone1, role1,
                              <<IF nameChanged THEN 1 ELSE 0,
                                IF phoneChanged THEN 1 ELSE 0,
                                IF roleChanged THEN 1 ELSE 0>>,
                              issues, roleThrows)
                     : issues \in {nameIssues \o phoneIssues} })
  IN  Only({ Fields(normalizedName, normalizedPhone, normalizedRole)
               : normalizedName  \in {IF config.normalizeNames
                                      THEN NameNormalizer_normalize(contact.name)
                                      ELSE contact.name},
                 normalizedPhone \in {IF doPhone
                                      THEN PhoneNormalizer_normalize(contact.phone)
                                      ELSE contact.phone},
                 normalizedRole  \in {IF doRole THEN normalizeRole(contact.role)
                                      ELSE contact.role} })

\* the callback with the name of the entry normalized like a contact's
NormalizePhoneOf_andName(entry, config) ==
  IF config.normalizePhones /\ ~Falsy(entry.phone)
  THEN [entry EXCEPT !.phone = PhoneNormalizer_normalize(entry.phone),
                     !.name = NameNormalizer_normalize(entry.name)]
  ELSE entry

\* the callback of emergency_contacts.map and of locations.map
NormalizePhoneOf(entry, config) ==
  IF config.normalizePhones /\ ~Falsy(entry.phone)
  THEN [entry EXCEPT !.phone = PhoneNormalizer_normalize(entry.phone)]
  ELSE entry

RECURSIVE SumOf(_, _)
SumOf(rs, f) ==
  IF Len(rs) = 0 THEN 0 ELSE rs[1][f] + SumOf(Tail(rs), f)

RECURSIVE IssuesOf(_)
IssuesOf(rs) ==
  IF Len(rs) = 0 THEN <<>> ELSE rs[1].issues \o IssuesOf(Tail(rs))

----------------------------------------------------------------------------
(* Objects.  The heap is the sequence of allocated objects; an address is   *)
(* an index into it.  An ExtractionResult is a root object referring to its *)
(* production_info object and to three arrays, each referring to its        *)
(* element objects.  Strings and numbers are values, held in val.           *)

RecordObject(v) == [kind |-> "record", refs |-> <<>>, val |-> v]

ArrayObject(items) == [kind |-> "array", refs |-> items, val |-> <<>>]

\* refs: production_info, contacts, emergency_contacts, locations
ExtractionObject(p, c, e, l) ==
  [kind |-> "extraction", refs |-> <<p, c, e, l>>, val |-> <<>>]

\* the addresses of n objects appended to h
NewAddrs(h, n) == Tuple([i \in 1..n |-> Len(h) + i])

AllocRecords(h, vals) == h \o Tuple([i \in 1..Len(vals) |-> RecordObject(vals[i])])

\* the object graph of the ExtractionResult value e, allocated after h
Build(h, e) ==
  LET h1 == Append(h, RecordObject(e.production_info))
      p  == Len(h1)
      h2 == Append(AllocRecords(h1, e.contacts),
                   ArrayObject(NewAddrs(h1, Len(e.contacts))))
      c  == Len(h2)
      h3 == Append(AllocRecords(h2, e.emergency_contacts),
                   ArrayObject(NewAddrs(h2, Len(e.emergency_contacts))))
      ec == Len(h3)
      h4 == Append(AllocRecords(h3, e.locations),
                   ArrayObject(NewAddrs(h3, Len(e.locations))))
      l  == Len(h4)
      h5 == Append(h4, ExtractionObject(p, c, ec, l))
  IN  [heap |-> h5, root |-> Len(h5)]

ValuesAt(h, addrs) == Tuple([i \in 1..Len(addrs) |-> h[addrs[i]].val])

\* the ExtractionResult value held by the graph at root
Deref(h, root) ==
  [ production_info    |-> h[h[root].refs[1]].val,
    contacts           |-> ValuesAt(h, h[h[root].refs[2]].refs),
    emergency_contacts |-> ValuesAt(h, h[h[root].refs[3]].refs),
    locations          |-> ValuesAt(h, h[h[root].refs[4]].refs) ]

\* every object reachable from root
Reach(h, root) ==
  {root}
    \cup {h[root].refs[k] : k \in 1..4}
    \cup UNION {{h[h[root].refs[k]].refs[i] : i \in 1..Len(h[h[root].refs[k]].refs)}
                 : k \in 2..4}

\* what JSON.stringify writes for a property value: a function-valued
\* property is omitted, an object is written as an object
JsonProperty(v) == IF v = FunctionObject THEN Null ELSE v

JsonContact(c) == [c EXCEPT !.role = JsonProperty(c.role)]

\* the clone left out: the result is the argument itself
JsonClone_alias(h, extraction) == [heap |-> h, root |-> extraction]

\* JSON.parse(JSON.stringify(extraction)): a fresh graph of the written value
JsonClone(h, extraction) ==
  LET e == Deref(h, extraction)
  IN  Build(h, [e EXCEPT !.contacts =
                   Tuple([i \in 1..Len(e.contacts) |-> JsonContact(e.contacts[i])])])

\* the objects at addrs[1..n] take the values vals[1..n]
WriteAll(h, addrs, vals, n) ==
  Tuple([a \in 1..Len(h) |->
           IF \E i \in 1..n : addrs[i] = a
           THEN [h[a] EXCEPT !.val = vals[CHOOSE i \in 1..n : addrs[i] = a]]
           ELSE h[a]])

\* root.<field k> = addr
SetRef(h, root, k, addr) == [h EXCEPT ![root].refs[k] = addr]

\* root.<field k> = root.<field k>.map(callback): the callback has changed the
\* first n element objects in place to vals, and map returns a new array of
\* the same objects
MapInPlace(h, root, k, vals, n) ==
  LET addrs == h[h[root].refs[k]].refs
  IN  Only({ SetRef(Append(written, ArrayObject(addrs)), root, k, Len(written) + 1)
               : written \in {WriteAll(h, addrs, vals, n)} })

\* the values of the array root.<field k> after callback(_, config) ran on each
PhonesOf(h, root, k, config) ==
  LET addrs == h[h[root].refs[k]].refs
  IN  Tuple([i \in 1..Len(addrs) |-> NormalizePhoneOf(h[addrs[i]].val, config)])

normalize(h0, extraction, config) ==
  LET Contacts(h, result) == h[h[result].refs[2]].refs
      \* Update total after deduplication
      Return(h8, result, rs, deduped) ==
        [ threw |-> FALSE, heap |-> h8, data |-> result,
          stats |-> [ phonesNormalized    |-> SumOf(rs, "phonesNormalized"),
                      namesNormalized     |-> SumOf(rs, "namesNormalized"),
                      rolesNormalized     |-> SumOf(rs, "rolesNormalized"),
                      departmentsInferred |-> SumOf(rs, "departmentsInferred"),
                      duplicatesRemoved   |-> IF config.deduplicate
                                              THEN deduped.removedCount ELSE 0,
                      totalContacts       |-> Len(Contacts(h8, result)) ],
          issues |-> IssuesOf(rs) ]
      \* Normalize locations
      Locations(h6, result, rs, deduped) ==
        Only({ Return(h8, result, rs, deduped)
                 : h8 \in {MapInPlace(h6, result, 4, PhonesOf(h6, result, 4, config),
                                      Len(h6[h6[result].refs[4]].refs))} })
      \* Normalize emergency contacts
      Emergency(h4, result, rs, deduped) ==
        Only({ Locations(h6, result, rs, deduped)
                 : h6 \in {MapInPlace(h4, result, 3, PhonesOf(h4, result, 3, config),
                                      Len(h4[h4[result].refs[3]].refs))} })
      \* Deduplicate contacts: every output record is a new object
      Deduplicated(h3, result, rs, deduped) ==
        Only({ Emergency(h4, result, rs, deduped)
                 : h4 \in { IF config.deduplicate
                            THEN SetRef(Append(AllocRecords(h3, deduped.contacts),
                                               ArrayObject(NewAddrs(h3, Len(deduped.contacts)))),
                                        result, 2, Len(h3) + Len(deduped.contacts) + 1)
                            ELSE h3 } })
      \* result.contacts = result.contacts.map(...): a callback that throws
      \* leaves the contacts before it changed and ends the call
      Mapped(h1, result, rs) ==
        LET thrown   == {i \in 1..Len(rs) : rs[i].threw}
            contacts == Tuple([i \in 1..Len(rs) |-> rs[i].contact])
        IN  IF thrown # {}
            THEN [ threw |-> TRUE,
                   heap  |-> WriteAll(h1, Contacts(h1, result), contacts, Min(thrown)),
                   data  |-> 0, stats |-> <<>>, issues |-> <<>> ]
            ELSE Only({ Only({ Deduplicated(h3, result, rs, deduped)
                                 : deduped \in {deduplicate(ValuesAt(h3, Contacts(h3, result)))} })
                          : h3 \in {MapInPlace(h1, result, 2, contacts, Len(rs))} })
      \* Clone the extraction to avoid mutation
      Cloned(h1, result) ==
        Only({ Mapped(h1, result, rs)
                 : rs \in {Tuple([i \in 1..Len(Contacts(h1, result)) |->
                             NormalizeContact(h1[Contacts(h1, result)[i]].val, config)])} })
  IN  Only({ Cloned(cloned.heap, cloned.root)
               : cloned \in {JsonClone(h0, extraction)} })

\* validator.ts: the check for an empty contacts list
validateExtraction(data) ==
  IF Len(data.contacts) = 0
  THEN << [field |-> "contacts", severity |-> "warning"] >>
  ELSE <<>>

----------------------------------------------------------------------------
(* Inputs: the ExtractionResult values the AI call may return *)

Contact(name, role, department, phone, email, notes, confidence) ==
  [ name |-> name, role |-> role, department |-> department, phone |-> phone,
    email |-> email, notes |-> notes, confidence |-> confidence ]

ContactPool ==
  {
    \* ('john smith', 'dp', None, '555-123-4567', None, 'a', 90)
    Contact(<<"j","o","h","n"," ","s","m","i","t","h">>,
            <<"d","p">>,
            Null,
            <<"5","5","5","-","1","2","3","-","4","5","6","7">>,
            Null,
            <<"a">>, 90),
    \* ('John  Smith', None, 'Art', '(555) 123-4567', 'J@X.io', 'b', 50)
    Contact(<<"J","o","h","n"," "," ","S","m","i","t","h">>,
            Null,
            <<"A","r","t">>,
            <<"(","5","5","5",")"," ","1","2","3","-","4","5","6","7">>,
            <<"J","@","X",".","i","o">>,
            <<"b">>, 50),
    \* ('a|1234567', None, None, None, None, None, 80)
    Contact(<<"a","|","1","2","3","4","5","6","7">>,
            Null,
            Null,
            Null,
            Null,
            Null, 80),
    \* ('a', None, None, '1234567', None, None, 70)
    Contact(<<"a">>,
            Null,
            Null,
            <<"1","2","3","4","5","6","7">>,
            Null,
            Null, 70),
    \* ('x y', 'constructor', None, None, None, None, 60)
    Contact(<<"x"," ","y">>,
            <<"c","o","n","s","t","r","u","c","t","o","r">>,
            Null,
            Null,
            Null,
            Null, 60),
    \* ('x y', '', None, None, ' ', 'a', 95)
    Contact(<<"x"," ","y">>,
            <<>>,
            Null,
            Null,
            <<" ">>,
            <<"a">>, 95),
    \* ('X Y', 'gaffer', 'Art', '12', None, 'a', 40)
    Contact(<<"X"," ","Y">>,
            <<"g","a","f","f","e","r">>,
            <<"A","r","t">>,
            <<"1","2">>,
            Null,
            <<"a">>, 40),
    \* ('mc van', '1st ad', ' ', 'abc', 'A@B.CO ', None, 85)
    Contact(<<"m","c"," ","v","a","n">>,
            <<"1","s","t"," ","a","d">>,
            <<" ">>,
            <<"a","b","c">>,
            <<"A","@","B",".","C","O"," ">>,
            Null, 85),
    \* ('\ufb01ona', None, None, '', None, None, 75)
    Contact(<<LigatureFi,"o","n","a">>,
            Null,
            Null,
            <<>>,
            Null,
            Null, 75)
  }

\* contacts told apart by role and department alone
RolePool ==
  {
    \* ('ann lee', 'actor', '', None, None, None, 90)
    Contact(<<"a","n","n"," ","l","e","e">>,
            <<"a","c","t","o","r">>,
            <<>>,
            Null,
            Null,
            Null, 90),
    \* ('bo chen', 'chef', '', None, None, None, 80)
    Contact(<<"b","o"," ","c","h","e","n">>,
            <<"c","h","e","f">>,
            <<>>,
            Null,
            Null,
            Null, 80),
    \* ('cy dun', 'Sound Mixer / Driver', None, None, None, None, 70)
    Contact(<<"c","y"," ","d","u","n">>,
            <<"S","o","u","n","d"," ","M","i","x","e","r"," ","/"," ","D","r","i","v","e","r">>,
            Null,
            Null,
            Null,
            Null, 70),
    \* ('di ng', 'location scout', 'Talent ', None, None, None, 60)
    Contact(<<"d","i"," ","n","g">>,
            <<"l","o","c","a","t","i","o","n"," ","s","c","o","u","t">>,
            <<"T","a","l","e","n","t"," ">>,
            Null,
            Null,
            Null, 60),
    \* ('ed fox', 'Chef', None, None, None, None, 50)
    Contact(<<"e","d"," ","f","o","x">>,
            <<"C","h","e","f">>,
            Null,
            Null,
            Null,
            Null, 50)
  }

\* contacts of one name that share an email or a short phone
KeyPool ==
  {
    \* ('kim roe', 'grip', None, '555-000-1111', 'k@x.io', None, 90)
    Contact(<<"k","i","m"," ","r","o","e">>,
            <<"g","r","i","p">>,
            Null,
            <<"5","5","5","-","0","0","0","-","1","1","1","1">>,
            <<"k","@","x",".","i","o">>,
            Null, 90),
    \* ('Kim  Roe', None, None, '5550002222', ' K@X.io ', 'b', 80)
    Contact(<<"K","i","m"," "," ","R","o","e">>,
            Null,
            Null,
            <<"5","5","5","0","0","0","2","2","2","2">>,
            <<" ","K","@","X",".","i","o"," ">>,
            <<"b">>, 80),
    \* ('kim roe', None, 'Art', '12', 'kim@x.io', None, 70)
    Contact(<<"k","i","m"," ","r","o","e">>,
            Null,
            <<"A","r","t">>,
            <<"1","2">>,
            <<"k","i","m","@","x",".","i","o">>,
            Null, 70),
    \* ('KIM ROE', None, None, '1-2', 'roe@x.io', None, 60)
    Contact(<<"K","I","M"," ","R","O","E">>,
            Null,
            Null,
            <<"1","-","2">>,
            <<"r","o","e","@","x",".","i","o">>,
            Null, 60)
  }

\* the longest contacts list of an input to normalize
MaxContacts == 2

\* the longest contacts list of an input to deduplicate
MaxDedup == 3

ListsOf(S, n) == UNION {[1..k -> S] : k \in 0..n}

Hospital ==
  [type |-> <<"H","o","s","p","i","t","a","l">>, name |-> <<"s","t"," ","m","a","r","y">>, phone |-> <<"1","5","5","5","1","2","3","4","5","6","7">>]

Police ==
  [type |-> <<"P","o","l","i","c","e">>, name |-> Null, phone |-> <<"9","1","1">>]

Stage ==
  [name |-> <<"s","t","a","g","e"," ","4">>, address |-> <<"1"," ","m","a","i","n"," ","s","t">>, phone |-> <<"5","5","5",".","1","2","3",".","4","5","6","7">>]

Office ==
  [name |-> Null, address |-> Null, phone |-> Null]

ProductionInfo ==
  [title |-> <<"p","i","l","o","t">>, production_company |-> Null, shoot_date |-> <<"2","0","2","5","-","0","1","-","0","2">>]

\* emergency contacts and locations: none, or lists with a repeated entry
SideLists ==
  { [emergency_contacts |-> <<>>, locations |-> <<>>],
    [emergency_contacts |-> <<Hospital, Police, Hospital>>,
     locations |-> <<Stage, Office, Stage>>] }

Extraction(cs, side) ==
  [ production_info    |-> ProductionInfo,
    contacts           |-> cs,
    emergency_contacts |-> side.emergency_contacts,
    locations          |-> side.locations ]

\* the default configuration and each option switched off on its own
Configs ==
  {DEFAULT_CONFIG}
    \cup {[DEFAULT_CONFIG EXCEPT ![f] = FALSE] :
            f \in {"normalizePhones", "normalizeNames", "normalizeRoles",
                   "inferDepartments", "deduplicate"}}

----------------------------------------------------------------------------
(* State *)

VARIABLES
  heap,       \* the objects allocated for the current normalize request
  nPc,        \* "idle", or "returned" once a normalize call has returned or thrown
  nRound,     \* 1: normalize ran on the AI's result; 2: on its own output
  nArg,       \* the address of the argument of the last normalize call
  nArgValue,  \* the value of that argument when the call was made
  nConfig,    \* the configuration of the service
  nOut,       \* what the last normalize call returned
  vIssues,    \* what validateExtraction returned for the last input
  dPc,        \* "idle", or "returned" once deduplicate has returned
  dIn,        \* the argument of the last deduplicate call
  dOut        \* what it returned

nvars == <<heap, nPc, nRound, nArg, nArgValue, nConfig, nOut, vIssues>>

dvars == <<dPc, dIn, dOut>>

NoResult == [threw |-> FALSE, heap |-> <<>>, data |-> 0, stats |-> <<>>, issues |-> <<>>]

NInit ==
  /\ heap = <<>>
  /\ nPc = "idle"
  /\ nRound = 0
  /\ nArg = 0
  /\ nArgValue = <<>>
  /\ nConfig = DEFAULT_CONFIG
  /\ nOut = NoResult
  /\ vIssues = <<>>

DInit ==
  /\ dPc = "idle"
  /\ dIn = <<>>
  /\ dOut = [contacts |-> <<>>, removedCount |-> 0]

\* a caller builds an ExtractionResult and passes it to normalize
NormalizeCall(e, config) ==
  /\ nPc = "idle"
  /\ LET built == Build(<<>>, e)
         r     == normalize(built.heap, built.root, config)
     IN  /\ heap' = r.heap
         /\ nArg' = built.root
         /\ nOut' = [r EXCEPT !.heap = <<>>]
  /\ nArgValue' = e
  /\ nConfig' = config
  /\ nRound' = 1
  /\ nPc' = "returned"
  /\ UNCHANGED vIssues

\* the caller passes the data normalize returned to normalize again
NormalizeAgain ==
  /\ nPc = "returned"
  /\ nRound = 1
  /\ ~nOut.threw
  /\ LET r == normalize(heap, nOut.data, nConfig)
     IN  /\ heap' = r.heap
         /\ nOut' = [r EXCEPT !.heap = <<>>]
  /\ nArg' = nOut.data
  /\ nArgValue' = Deref(heap, nOut.data)
  /\ nRound' = 2
  /\ UNCHANGED <<nPc, nConfig, vIssues>>

\* the AI layer validates the extraction it parsed
ValidateCall(e) ==
  /\ nPc = "idle"
  /\ vIssues' = validateExtraction(e)
  /\ nArgValue' = e
  /\ nPc' = "returned"
  /\ nRound' = 0
  /\ UNCHANGED <<heap, nArg, nConfig, nOut>>

\* the request is over and its objects are dropped
NormalizeDone ==
  /\ nPc = "returned"
  /\ heap' = <<>>
  /\ nPc' = "idle"
  /\ nRound' = 0
  /\ nArg' = 0
  /\ nArgValue' = <<>>
  /\ nConfig' = DEFAULT_CONFIG
  /\ nOut' = NoResult
  /\ vIssues' = <<>>

DeduplicateCall(cs) ==
  /\ dPc = "idle"
  /\ dPc' = "returned"
  /\ dIn' = cs
  /\ dOut' = deduplicate(cs)

DeduplicateDone ==
  /\ dPc = "returned"
  /\ dPc' = "idle"
  /\ dIn' = <<>>
  /\ dOut' = [contacts |-> <<>>, removedCount |-> 0]

ExtractionInputs ==
  {Extraction(cs, side) : cs \in ListsOf(ContactPool, MaxContacts) \cup ListsOf(RolePool, MaxContacts),
                          side \in SideLists}

----------------------------------------------------------------------------
(* Encodings *)

\* an optional property: absent, or present with a value
None == <<>>

Some(x) == <<x>>

Repeat(c, n) == Tuple([i \in 1..n |-> c])

\* the printable ASCII characters, code 32 to 126 (the grave accent, code 96,
\* has no string literal and stands as a question mark)
AsciiPrintable ==
  <<" ","!","\"","#","$","%","&","'","(",")","*","+",",","-",".","/","0","1","2","3","4","5","6","7","8","9",":",";","<","=",">","?","@","A","B","C","D","E","F","G","H","I","J","K","L","M","N","O","P","Q","R","S","T","U","V","W","X","Y","Z","[","\\","]","^","_","?","a","b","c","d","e","f","g","h","i","j","k","l","m","n","o","p","q","r","s","t","u","v","w","x","y","z","{","|","}","~">>

\* the character of a byte, for the bytes that are ASCII text
CharOfByte(b) ==
  IF b = 10 THEN "\n"
  ELSE IF b = 9 THEN "\t"
  ELSE IF b >= 32 /\ b <= 126 THEN AsciiPrintable[b - 31]
  ELSE "?"

Base64Alphabet ==
  UpperLetters \o LowerLetters
    \o <<"0","1","2","3","4","5","6","7","8","9","+","/">>

Base64Value(c) == (CHOOSE i \in 1..64 : Base64Alphabet[i] = c) - 1

IsBase64Char(c) == \E i \in 1..64 : Base64Alphabet[i] = c

\* the bytes of up to four base64 characters
Base64Group(g) ==
  LET v(i) == IF i <= Len(g) THEN Base64Value(g[i]) ELSE 0
      n    == v(1) * 262144 + v(2) * 4096 + v(3) * 64 + v(4)
      all  == <<n \div 65536, (n \div 256) % 256, n % 256>>
  IN  SubSeq(all, 1, (Len(g) * 6) \div 8)

\* Buffer.from(s, "base64"): the characters outside the alphabet are skipped
RECURSIVE Base64Bytes(_)
Base64Bytes(s) ==
  IF Len(s) = 0 THEN <<>>
  ELSE Base64Group(SubSeq(s, 1, Min({4, Len(s)})))
         \o Base64Bytes(SubSeq(s, 5, Len(s)))

Base64Decode(s) == Base64Bytes(SelectSeq(s, IsBase64Char))

\* buffer.toString("utf-8")
Utf8String(bytes) == Tuple([i \in 1..Len(bytes) |-> CharOfByte(bytes[i])])

HexDigits == <<"0","1","2","3","4","5","6","7","8","9","a","b","c","d","e","f">>

IsHex(c) == \E i \in 1..16 : HexDigits[i] = toLowerChar(c)

HexValue(c) == (CHOOSE i \in 1..16 : HexDigits[i] = toLowerChar(c)) - 1

\* decodeURIComponent: Raise stands for the URIError of a malformed escape
RECURSIVE decodeURIComponent(_)
decodeURIComponent(s) ==
  IF Len(s) = 0 THEN <<>>
  ELSE IF s[1] # "%"
       THEN LET rest == decodeURIComponent(Tail(s))
            IN  IF rest = Raise THEN Raise ELSE <<s[1]>> \o rest
  ELSE IF Len(s) >= 3 /\ IsHex(s[2]) /\ IsHex(s[3])
       THEN LET rest == decodeURIComponent(SubSeq(s, 4, Len(s)))
            IN  IF rest = Raise THEN Raise
                ELSE <<CharOfByte(HexValue(s[2]) * 16 + HexValue(s[3]))>> \o rest
  ELSE Raise

\* (.+)$ : one or more characters, none a line terminator, up to the end
DotPlus(s) == Len(s) > 0 /\ \A i \in 1..Len(s) : s[i] # "\n"

\* s.lastIndexOf(sub, from), 0-based; -1 when there is none
lastIndexOf(s, sub, from) ==
  LET upto == IF from > Len(s) - Len(sub) THEN Len(s) - Len(sub) ELSE from
      at   == {i \in 0..upto : SubSeq(s, i + 1, i + Len(sub)) = sub}
  IN  IF at = {} THEN -1 ELSE Max(at)

\* the 0-based index of the first c in s; -1 when there is none
indexOfChar(s, c) ==
  LET at == {i \in 1..Len(s) : s[i] = c}
  IN  IF at = {} THEN -1 ELSE Min(at) - 1

----------------------------------------------------------------------------
(* Document processors: results *)

Success(document) == [success |-> TRUE, document |-> Some(document), error |-> None]

\* a failure result; detail is what the message interpolates
Failure(message, detail) ==
  [success |-> FALSE, document |-> None, error |-> Some(<<message, detail>>)]

Metadata(filename, mimeType, size, pageCount) ==
  [originalFilename |-> filename, mimeType |-> mimeType, size |-> size,
   pageCount |-> pageCount]

Document(type, textContent, images, metadata, strategy, requiresVision) ==
  [ type |-> type, textContent |-> textContent, images |-> images,
    metadata |-> metadata, strategy |-> strategy, requiresVision |-> requiresVision ]

\* /^data:[^;]+;base64,(.+)$/ : the payload, or None
MatchBase64DataUrl(dataUrl) ==
  LET semi == indexOfChar(dataUrl, ";")
      rest == substringFrom(dataUrl, semi)
  IN  IF /\ startsWith(dataUrl, <<"d","a","t","a",":">>)
         /\ semi > 5
         /\ startsWith(rest, <<";","b","a","s","e","6","4",",">>)
         /\ DotPlus(substringFrom(rest, 8))
      THEN Some(substringFrom(rest, 8))
      ELSE None

----------------------------------------------------------------------------
(* WordProcessor *)

WORD_MIN_TEXT_LENGTH == 50

WORD_MAX_TEXT_LENGTH == 50000

WordMime ==
  <<"a","p","p","l","i","c","a","t","i","o","n","/","v","n","d",".","o","p","e","n","x","m","l","f","o","r","m","a","t","s","-","o","f","f","i","c","e","d","o","c","u","m","e","n","t",".","w","o","r","d","p","r","o","c","e","s","s","i","n","g","m","l",".","d","o","c","u","m","e","n","t">>

WordProcessor_canProcess(dataUrl, mimeType) ==
  \/ startsWith(dataUrl, <<"d","a","t","a",":","a","p","p","l","i","c","a","t","i","o","n","/","v","n","d",".","o","p","e","n","x","m","l","f","o","r","m","a","t","s","-","o","f","f","i","c","e","d","o","c","u","m","e","n","t",".","w","o","r","d","p","r","o","c","e","s","s","i","n","g","m","l">>)
  \/ mimeType = WordMime
  \/ mimeType = <<"a","p","p","l","i","c","a","t","i","o","n","/","m","s","w","o","r","d">>

\* extracted is what mammoth.extractRawText does with the buffer: the text it
\* returns, or Raise when it rejects
WordProcessor_process(dataUrl, filename, extracted) ==
  LET base64Match == MatchBase64DataUrl(dataUrl)
      docBuffer   == Base64Decode(base64Match[1])
      textContent == extracted
  IN  IF base64Match = None
      THEN Failure("Invalid Word document data URL format", <<>>)
      ELSE IF extracted = Raise
      THEN Failure("Word document processing failed: ", <<>>)
      ELSE IF Len(trim(textContent)) < WORD_MIN_TEXT_LENGTH
      THEN Failure("Word document has insufficient text content", Len(trim(textContent)))
      ELSE Success(Document("text",
             Some(IF Len(textContent) > WORD_MAX_TEXT_LENGTH
                  THEN substring(textContent, 0, WORD_MAX_TEXT_LENGTH)
                         \o <<"\n","\n","[","D","o","c","u","m","e","n","t"," ","t","r","u","n","c","a","t","e","d"," ","-"," ","s","h","o","w","i","n","g"," ","f","i","r","s","t"," ","5","0",",","0","0","0"," ","c","h","a","r","a","c","t","e","r","s","]">>
                  ELSE textContent),
             None,
             Metadata(filename, WordMime, Len(docBuffer), None),
             "text-extraction", FALSE))

----------------------------------------------------------------------------
(* ExcelProcessor *)

EXCEL_MIN_TEXT_LENGTH == 50

EXCEL_MAX_TEXT_LENGTH == 50000

ExcelMime ==
  <<"a","p","p","l","i","c","a","t","i","o","n","/","v","n","d",".","o","p","e","n","x","m","l","f","o","r","m","a","t","s","-","o","f","f","i","c","e","d","o","c","u","m","e","n","t",".","s","p","r","e","a","d","s","h","e","e","t","m","l",".","s","h","e","e","t">>

ExcelProcessor_canProcess(dataUrl, mimeType) ==
  \/ startsWith(dataUrl, <<"d","a","t","a",":","a","p","p","l","i","c","a","t","i","o","n","/","v","n","d",".","o","p","e","n","x","m","l","f","o","r","m","a","t","s","-","o","f","f","i","c","e","d","o","c","u","m","e","n","t",".","s","p","r","e","a","d","s","h","e","e","t","m","l">>)
  \/ startsWith(dataUrl, <<"d","a","t","a",":","a","p","p","l","i","c","a","t","i","o","n","/","v","n","d",".","m","s","-","e","x","c","e","l">>)
  \/ mimeType = ExcelMime
  \/ mimeType = <<"a","p","p","l","i","c","a","t","i","o","n","/","v","n","d",".","m","s","-","e","x","c","e","l">>

RowIsEmpty(row) == \A i \in 1..Len(row) : row[i] = <<>> \/ trim(row[i]) = <<>>

FormatRow(row) == join(Tuple([i \in 1..Len(row) |-> trim(row[i])]), <<" ","|"," ">>)

RECURSIVE FormatRows(_)
FormatRows(data) ==
  IF Len(data) = 0 THEN <<>>
  ELSE IF RowIsEmpty(data[1]) THEN FormatRows(Tail(data))
  ELSE <<FormatRow(data[1])>> \o FormatRows(Tail(data))

formatSheetAsText(sheetName, data) ==
  join(<< <<"=","=","="," ","S","h","e","e","t",":"," ">> \o sheetName \o <<" ","=","=","=">>, <<>> >> \o FormatRows(data),
       <<"\n">>)

RECURSIVE SheetTexts(_)
SheetTexts(sheets) ==
  IF Len(sheets) = 0 THEN <<>>
  ELSE LET sheetText == formatSheetAsText(sheets[1].name, sheets[1].data)
       IN  IF Len(sheets[1].data) = 0 \/ trim(sheetText) = <<>>
           THEN SheetTexts(Tail(sheets))
           ELSE <<sheetText>> \o SheetTexts(Tail(sheets))

\* workbook is what XLSX.read and sheet_to_json make of the buffer: whether the
\* library threw, and otherwise the sheets with their rows of cells
ExcelProcessor_process(dataUrl, filename, workbook) ==
  LET base64Match == MatchBase64DataUrl(dataUrl)
      excelBuffer == Base64Decode(base64Match[1])
      textContent == join(SheetTexts(workbook.sheets), <<"\n","\n","-","-","-","\n","\n">>)
  IN  IF base64Match = None
      THEN Failure("Invalid Excel document data URL format", <<>>)
      ELSE IF workbook.threw
      THEN Failure("Excel document processing failed: ", <<>>)
      ELSE IF Len(workbook.sheets) = 0
      THEN Failure("Excel file contains no sheets", <<>>)
      ELSE IF Len(trim(textContent)) < EXCEL_MIN_TEXT_LENGTH
      THEN Failure("Excel file has insufficient data", Len(trim(textContent)))
      ELSE Success(Document("text",
             Some(IF Len(textContent) > EXCEL_MAX_TEXT_LENGTH
                  THEN substring(textContent, 0, EXCEL_MAX_TEXT_LENGTH)
                         \o <<"\n","\n","[","D","o","c","u","m","e","n","t"," ","t","r","u","n","c","a","t","e","d"," ","-"," ","s","h","o","w","i","n","g"," ","f","i","r","s","t"," ","5","0",",","0","0","0"," ","c","h","a","r","a","c","t","e","r","s","]">>
                  ELSE textContent),
             None,
             Metadata(filename, ExcelMime, Len(excelBuffer), None),
             "text-extraction", FALSE))

----------------------------------------------------------------------------
(* ImageProcessor *)

SUPPORTED_IMAGE_TYPES ==
  << <<"i","m","a","g","e","/","p","n","g">>,
     <<"i","m","a","g","e","/","j","p","e","g">>,
     <<"i","m","a","g","e","/","j","p","g">>,
     <<"i","m","a","g","e","/","g","i","f">>,
     <<"i","m","a","g","e","/","w","e","b","p">> >>

MAX_IMAGE_SIZE == 20 * 1024 * 1024

IsSupportedImageType(mimeType) ==
  \E i \in 1..Len(SUPPORTED_IMAGE_TYPES) : SUPPORTED_IMAGE_TYPES[i] = mimeType

ImageProcessor_canProcess(dataUrl, mimeType) ==
  \/ startsWith(dataUrl, <<"d","a","t","a",":","i","m","a","g","e","/">>)
  \/ (~Falsy(mimeType) /\ IsSupportedImageType(mimeType))

\* /^data:(image\/[a-z]+);base64,/ : the MIME type, or None
MatchImageDataUrl(dataUrl) ==
  LET semi == indexOfChar(dataUrl, ";")
  IN  IF /\ startsWith(dataUrl, <<"d","a","t","a",":","i","m","a","g","e","/">>)
         /\ semi > 11
         /\ \A i \in 12..semi : IsLower(dataUrl[i])
         /\ startsWith(substringFrom(dataUrl, semi), <<";","b","a","s","e","6","4",",">>)
      THEN Some(substring(dataUrl, 5, semi))
      ELSE None

\* a data URL too long to write out: dataUrl followed by `more` further
\* characters of payload, none of them a comma
Padded(dataUrl, more) ==
  IF more = 0 THEN dataUrl ELSE [head |-> dataUrl, more |-> more]

\* lines 36-89: process of the data URL that is dataUrl followed by `more`
\* further characters of payload
ImageProcessor_processPadded(dataUrl, more, filename) ==
  LET mimeMatch  == MatchImageDataUrl(dataUrl)
      mimeType   == mimeMatch[1]
      base64Data == split(dataUrl, ",")[2]
      \* Math.ceil((base64Data.length * 3) / 4)
      approximateSize == ((Len(base64Data) + more) * 3 + 3) \div 4
  IN  IF mimeMatch = None
      THEN Failure("Invalid image data URL format", <<>>)
      ELSE IF ~IsSupportedImageType(mimeType)
      THEN Failure("Unsupported image type: ", mimeType)
      ELSE IF approximateSize > MAX_IMAGE_SIZE
      THEN Failure("Image too large", approximateSize)
      ELSE Success(Document("image", None, Some(<<Padded(dataUrl, more)>>),
                            Metadata(filename, mimeType, approximateSize, None),
                            "vision", TRUE))

ImageProcessor_process(dataUrl, filename) ==
  ImageProcessor_processPadded(dataUrl, 0, filename)

----------------------------------------------------------------------------
(* TextProcessor *)

TEXT_MIN_TEXT_LENGTH == 10

TEXT_MAX_TEXT_LENGTH == 50000

TruncationNotice ==
  <<"\n","\n","[","D","o","c","u","m","e","n","t"," ","t","r","u","n","c","a","t","e","d"," ","-"," ","s","h","o","w","i","n","g"," ","f","i","r","s","t"," ","~","5","0",",","0","0","0"," ","c","h","a","r","a","c","t","e","r","s","."," ","C","o","n","t","a","c","t"," ","i","n","f","o","r","m","a","t","i","o","n"," ","i","s"," ","t","y","p","i","c","a","l","l","y"," ","i","n"," ","t","h","e"," ","f","i","r","s","t"," ","s","e","c","t","i","o","n",".","]">>

\* canProcess without its test of the MIME type
TextProcessor_canProcess_noHint(dataUrl, mimeType) ==
  \/ ~startsWith(dataUrl, <<"d","a","t","a",":">>)
  \/ startsWith(dataUrl, <<"d","a","t","a",":","t","e","x","t","/">>)

TextProcessor_canProcess(dataUrl, mimeType) ==
  \/ ~startsWith(dataUrl, <<"d","a","t","a",":">>)
  \/ startsWith(dataUrl, <<"d","a","t","a",":","t","e","x","t","/">>)
  \/ (mimeType # Null /\ startsWith(mimeType, <<"t","e","x","t","/">>))

\* the test with half of the target length in place of 70%
NoGoodBreak_half(breakPoint, targetLength) ==
  breakPoint = -1 \/ breakPoint * 2 < targetLength

\* breakPoint === -1 || breakPoint < targetLength * 0.7
NoGoodBreak(breakPoint, targetLength) ==
  breakPoint = -1 \/ breakPoint * 10 < targetLength * 7

smartTruncate(text, maxLength) ==
  IF Len(text) <= maxLength THEN text
  ELSE
    LET targetLength == maxLength - 100
        paragraph == lastIndexOf(text, <<"\n", "\n">>, targetLength)
        line      == IF NoGoodBreak(paragraph, targetLength)
                     THEN lastIndexOf(text, <<"\n">>, targetLength)
                     ELSE paragraph
        period    == lastIndexOf(text, <<".", " ">>, targetLength)
        sentence  == IF NoGoodBreak(line, targetLength)
                     THEN (IF period # -1 THEN period + 1 ELSE period)
                     ELSE line
        breakPoint == IF NoGoodBreak(sentence, targetLength)
                      THEN targetLength
                      ELSE sentence
    IN  trim(substring(text, 0, breakPoint)) \o TruncationNotice

\* /^data:text\/[^;]+;base64,(.+)$/ : the payload, or None
MatchTextBase64(dataUrl) ==
  LET semi == indexOfChar(dataUrl, ";")
      rest == substringFrom(dataUrl, semi)
  IN  IF /\ startsWith(dataUrl, <<"d","a","t","a",":","t","e","x","t","/">>)
         /\ semi > 10
         /\ startsWith(rest, <<";","b","a","s","e","6","4",",">>)
         /\ DotPlus(substringFrom(rest, 8))
      THEN Some(substringFrom(rest, 8))
      ELSE None

\* /^data:text\/[^,]+,(.+)$/ : the payload, or None
MatchTextData(dataUrl) ==
  LET comma == indexOfChar(dataUrl, ",")
  IN  IF /\ startsWith(dataUrl, <<"d","a","t","a",":","t","e","x","t","/">>)
         /\ comma > 10
         /\ DotPlus(substringFrom(dataUrl, comma + 1))
      THEN Some(substringFrom(dataUrl, comma + 1))
      ELSE None

\* the text the processor works on, or Raise when decoding throws
TextProcessor_decode(dataUrl) ==
  IF startsWith(dataUrl, <<"d","a","t","a",":","t","e","x","t","/">>)
  THEN IF MatchTextBase64(dataUrl) # None
       THEN Utf8String(Base64Decode(MatchTextBase64(dataUrl)[1]))
       ELSE IF MatchTextData(dataUrl) # None
            THEN decodeURIComponent(MatchTextData(dataUrl)[1])
            ELSE dataUrl
  ELSE dataUrl

TextProcessor_process(dataUrl, filename) ==
  LET decoded     == TextProcessor_decode(dataUrl)
      textContent == IF Len(decoded) > TEXT_MAX_TEXT_LENGTH
                     THEN smartTruncate(decoded, TEXT_MAX_TEXT_LENGTH)
                     ELSE decoded
  IN  IF decoded = Raise
      THEN Failure("Text processing failed: ", <<>>)
      ELSE IF Len(trim(decoded)) < TEXT_MIN_TEXT_LENGTH
      THEN Failure("Text content too short", TEXT_MIN_TEXT_LENGTH)
      ELSE Success(Document("text", Some(textContent), None,
                            Metadata(filename, <<"t","e","x","t","/","p","l","a","i","n">>, Len(textContent), None),
                            "direct-text", FALSE))

----------------------------------------------------------------------------
(* PdfProcessor *)

MIN_TEXT_LENGTH_THRESHOLD == 100

MAX_PAGES_FOR_VISION == 5

PdfMime == <<"a","p","p","l","i","c","a","t","i","o","n","/","p","d","f">>

PdfProcessor_canProcess(dataUrl, mimeType) ==
  \/ startsWith(dataUrl, <<"d","a","t","a",":","a","p","p","l","i","c","a","t","i","o","n","/","p","d","f">>)
  \/ mimeType = PdfMime

\* /^data:application\/pdf;base64,(.+)$/ : the payload, or None
MatchPdfDataUrl(dataUrl) ==
  LET prefix == <<"d","a","t","a",":","a","p","p","l","i","c","a","t","i","o","n","/","p","d","f",";","b","a","s","e","6","4",",">>
      rest   == substringFrom(dataUrl, Len(prefix))
  IN  IF startsWith(dataUrl, prefix) /\ DotPlus(rest) THEN Some(rest) ELSE None

\* the code unit of a character
charCodeAt(c) ==
  IF c = "\n" THEN 10
  ELSE IF c = "\t" THEN 9
  ELSE 31 + Min({i \in 1..Len(AsciiPrintable) : AsciiPrintable[i] = c})

\* a < b as Array.prototype.sort orders strings by default
RECURSIVE StringLess(_, _)
StringLess(a, b) ==
  IF Len(b) = 0 THEN FALSE
  ELSE IF Len(a) = 0 THEN TRUE
  ELSE IF a[1] = b[1] THEN StringLess(Tail(a), Tail(b))
  ELSE charCodeAt(a[1]) < charCodeAt(b[1])

\* the strings of a set in sort() order
RECURSIVE SortStrings(_)
SortStrings(S) ==
  IF S = {} THEN <<>>
  ELSE LET least == CHOOSE a \in S : \A b \in S \ {a} : StringLess(a, b)
       IN  <<least>> \o SortStrings(S \ {least})

\* up to three bytes as base64 characters, padded with "="
Base64EncodeGroup(g) ==
  LET v(i) == IF i <= Len(g) THEN g[i] ELSE 0
      n    == v(1) * 65536 + v(2) * 256 + v(3)
      all  == <<Base64Alphabet[(n \div 262144) + 1],
                Base64Alphabet[((n \div 4096) % 64) + 1],
                Base64Alphabet[((n \div 64) % 64) + 1],
                Base64Alphabet[(n % 64) + 1]>>
  IN  SubSeq(all, 1, Len(g) + 1) \o Repeat("=", 3 - Len(g))

\* buffer.toString("base64")
RECURSIVE Base64Encode(_)
Base64Encode(bytes) ==
  IF Len(bytes) = 0 THEN <<>>
  ELSE Base64EncodeGroup(SubSeq(bytes, 1, Min({3, Len(bytes)})))
         \o Base64Encode(SubSeq(bytes, 4, Len(bytes)))

\* randomUUID(): the uuids are told apart by the order they are drawn in
randomUUID(drawn) == drawn + 1

\* join(tmpdir(), `callsheet-pdf-${jobId}`), with one directory for all jobs
TempDir_shared(jobId) == <<"callsheet-pdf-", 0>>

\* join(tmpdir(), `callsheet-pdf-${jobId}`)
TempDir(jobId) == <<"callsheet-pdf-", jobId>>

InputPdf == <<"i","n","p","u","t",".","p","d","f">>

\* the file pdftoppm writes for page n (a single digit) with the output prefix
\* "page"
PageFile(n) == <<"p","a","g","e","-">> \o <<HexDigits[n + 1]>> \o <<".","p","n","g">>

\* the PNG pdftoppm renders for page n
PageBytes(n) == <<137, 80, 78, 71, n>>

\* the messages of the errors mkdir and writeFile reject with
FsErrors ==
  { <<"E","A","C","C","E","S",":"," ","p","e","r","m","i","s","s","i","o","n"," ","d","e","n","i","e","d">>, <<"E","N","O","E","N","T",":"," ","n","o"," ","s","u","c","h"," ","f","i","l","e"," ","o","r"," ","d","i","r","e","c","t","o","r","y">> }

\* the messages of the errors exec rejects with when pdftoppm fails: the shell
\* finds no such binary, or pdftoppm cannot read the document
PdftoppmNotFound == <<"C","o","m","m","a","n","d"," ","f","a","i","l","e","d",":"," ","p","d","f","t","o","p","p","m"," ","/","b","i","n","/","s","h",":"," ","1",":"," ","p","d","f","t","o","p","p","m",":"," ","n","o","t"," ","f","o","u","n","d">>

PdftoppmSyntaxError == <<"C","o","m","m","a","n","d"," ","f","a","i","l","e","d",":"," ","p","d","f","t","o","p","p","m"," ","S","y","n","t","a","x"," ","E","r","r","o","r",":"," ","C","o","u","l","d","n","'","t"," ","r","e","a","d"," ","x","r","e","f"," ","t","a","b","l","e">>

ExecErrors == {PdftoppmNotFound, PdftoppmSyntaxError}

\* what pdfinfo reports: parseInt of its output, 1 when it fails
PageCounts == {1, 7}

\* what pdftotext writes to stdout ("" when it fails too)
PdfTexts ==
  { <<>>,
    Repeat(" ", 3) \o Repeat("x", MIN_TEXT_LENGTH_THRESHOLD - 1),
    Repeat("x", MIN_TEXT_LENGTH_THRESHOLD) }

VARIABLES
  pPc,        \* for each job, the step of PdfProcessor.process it is at
  pLocal,     \* for each job, the local variables of its call
  fsDirs,     \* the directories under tmpdir(), with the job that made each
  fsFiles,    \* the files in them, with the job that wrote each
  uuidsDrawn, \* how many uuids randomUUID has produced
  touched     \* <<job, operation, maker>>: the job operated on what maker made

pvars == <<pPc, pLocal, fsDirs, fsFiles, uuidsDrawn, touched>>

NJobs == 2

Jobs == 1..NJobs

Pending == [success |-> FALSE, document |-> None, error |-> None]

NoJob ==
  [ dataUrl |-> <<>>, filename |-> <<>>, jobId |-> 0, size |-> 0, pageCount |-> 0,
    textContent |-> <<>>, textLength |-> 0, trimmedLength |-> 0,
    listing |-> <<>>, images |-> <<>>,
    imagesBy |-> <<>>, convertError |-> <<>>, after |-> "none", error |-> <<>>,
    result |-> Pending ]

PInit ==
  /\ pPc = [j \in Jobs |-> "idle"]
  /\ pLocal = [j \in Jobs |-> NoJob]
  /\ fsDirs = {}
  /\ fsFiles = {}
  /\ uuidsDrawn = 0
  /\ touched = {}

DirExists(dir) == \E d \in fsDirs : d.path = dir

FilesIn(dir) == {f \in fsFiles : f.dir = dir}

Goto(j, step) == pPc' = [pPc EXCEPT ![j] = step]

\* lines 37-42: the call draws its job id and enters the try block; the calls
\* are numbered in the order they begin
PdfStart(j, dataUrl, filename) ==
  /\ pPc[j] = "idle"
  /\ \A k \in 1..(j - 1) : pPc[k] # "idle"
  /\ pLocal' = [pLocal EXCEPT ![j] =
       [NoJob EXCEPT !.dataUrl = dataUrl, !.filename = filename,
                     !.jobId = randomUUID(uuidsDrawn)]]
  /\ uuidsDrawn' = uuidsDrawn + 1
  /\ Goto(j, "mkdir")
  /\ UNCHANGED <<fsDirs, fsFiles, touched>>

\* lines 45-56: mkdir(tempDir, {recursive: true}) settles, then the data URL is
\* matched
PdfMkdir(j) ==
  /\ pPc[j] = "mkdir"
  /\ LET my        == pLocal[j]
         tempDir   == TempDir(my.jobId)
         base64Match == MatchPdfDataUrl(my.dataUrl)
     IN  \/ /\ fsDirs' = IF DirExists(tempDir) THEN fsDirs
                         ELSE fsDirs \cup {[path |-> tempDir, by |-> j]}
            /\ IF base64Match = None
               THEN /\ pLocal' = [pLocal EXCEPT ![j].result =
                                    Failure("Invalid PDF data URL format", <<>>)]
                    /\ Goto(j, "returned")
               ELSE /\ pLocal' = [pLocal EXCEPT ![j].size =
                                    Len(Base64Decode(base64Match[1]))]
                    /\ Goto(j, "writeFile")
         \/ /\ \E e \in FsErrors :
                 pLocal' = [pLocal EXCEPT ![j].error = e, ![j].after = "catch"]
            /\ Goto(j, "cleanup")
            /\ UNCHANGED fsDirs
  /\ UNCHANGED <<fsFiles, uuidsDrawn, touched>>

\* line 57: writeFile(pdfPath, pdfBuffer) settles
PdfWriteFile(j) ==
  /\ pPc[j] = "writeFile"
  /\ LET my      == pLocal[j]
         tempDir == TempDir(my.jobId)
         bytes   == Base64Decode(MatchPdfDataUrl(my.dataUrl)[1])
         owner   == (CHOOSE d \in fsDirs : d.path = tempDir).by
     IN  \/ /\ DirExists(tempDir)
            /\ fsFiles' = {f \in fsFiles : ~(f.dir = tempDir /\ f.name = InputPdf)}
                            \cup {[dir |-> tempDir, name |-> InputPdf, by |-> j,
                                   bytes |-> bytes]}
            /\ touched' = touched \cup {<<j, "write", owner>>}
            /\ Goto(j, "pdfinfo")
            /\ UNCHANGED pLocal
         \/ /\ \E e \in FsErrors :
                 pLocal' = [pLocal EXCEPT ![j].error = e, ![j].after = "catch"]
            /\ Goto(j, "cleanup")
            /\ UNCHANGED <<fsFiles, touched>>
  /\ UNCHANGED <<fsDirs, uuidsDrawn>>

\* the jobs whose file a tool reading the job's input.pdf reads
InputMakers(j) ==
  {f.by : f \in {g \in FilesIn(TempDir(pLocal[j].jobId)) : g.name = InputPdf}}

\* lines 60, 154-163: getPageCount
PdfGetPageCount(j) ==
  /\ pPc[j] = "pdfinfo"
  /\ \E count \in PageCounts : pLocal' = [pLocal EXCEPT ![j].pageCount = count]
  /\ touched' = touched \cup {<<j, "read", by>> : by \in InputMakers(j)}
  /\ Goto(j, "pdftotext")
  /\ UNCHANGED <<fsDirs, fsFiles, uuidsDrawn>>

\* line 65 with the text taken as it is, untrimmed
HasSignificantText_untrimmed(textContent) ==
  Len(textContent) >= MIN_TEXT_LENGTH_THRESHOLD

\* line 65: textContent.trim().length >= MIN_TEXT_LENGTH_THRESHOLD
HasSignificantText(textContent) ==
  Len(trim(textContent)) >= MIN_TEXT_LENGTH_THRESHOLD

\* lines 64-67, 168-182: extractText, and the test for significant text; the
\* text is kept for the result, the scanned path reads its length only
PdfExtractText(j) ==
  /\ pPc[j] = "pdftotext"
  /\ \E textContent \in PdfTexts :
       LET hasSignificantText == HasSignificantText(textContent)
       IN  /\ pLocal' = [pLocal EXCEPT
                           ![j].textContent = IF hasSignificantText THEN textContent
                                              ELSE <<>>,
                           ![j].textLength = Len(textContent),
                           ![j].trimmedLength = Len(trim(textContent)),
                           ![j].after = IF hasSignificantText THEN "text" ELSE "none"]
           /\ Goto(j, IF hasSignificantText THEN "cleanup" ELSE "pdftoppm")
  /\ touched' = touched \cup {<<j, "read", by>> : by \in InputMakers(j)}
  /\ UNCHANGED <<fsDirs, fsFiles, uuidsDrawn>>

\* lines 189-200, 221-226: pdftoppm writes the pages it renders, then exits; a
\* failing run may leave the pages it had rendered, a missing binary writes
\* none; convertToImages logs the error and returns []
PdfToPpm(j) ==
  /\ pPc[j] = "pdftoppm"
  /\ LET my      == pLocal[j]
         tempDir == TempDir(my.jobId)
         pagesToConvert == Min({my.pageCount, MAX_PAGES_FOR_VISION})
         owner   == (CHOOSE d \in fsDirs : d.path = tempDir).by
     IN  \E written \in {0, pagesToConvert}, e \in {<<>>} \cup ExecErrors :
           /\ e = <<>> => written > 0
           /\ e = PdftoppmNotFound => written = 0
           /\ written > 0 => DirExists(tempDir)
           /\ fsFiles' =
                {f \in fsFiles :
                   ~(f.dir = tempDir /\ \E n \in 1..written : f.name = PageFile(n))}
                  \cup {[dir |-> tempDir, name |-> PageFile(n), by |-> j,
                         bytes |-> PageBytes(n)] : n \in 1..written}
           /\ touched' = touched
                  \cup {<<j, "read", by>> : by \in InputMakers(j)}
                  \cup (IF written > 0 THEN {<<j, "write", owner>>} ELSE {})
           /\ IF e = <<>>
              THEN Goto(j, "readdir") /\ UNCHANGED pLocal
              ELSE /\ pLocal' = [pLocal EXCEPT ![j].images = <<>>,
                                   ![j].imagesBy = <<>>, ![j].convertError = e,
                                   ![j].after = "images"]
                   /\ Goto(j, "cleanup")
  /\ UNCHANGED <<fsDirs, uuidsDrawn>>

\* lines 203-206: readdir(tempDir), the page files in sort() order
PdfReaddir(j) ==
  /\ pPc[j] = "readdir"
  /\ LET tempDir    == TempDir(pLocal[j].jobId)
         files      == {f.name : f \in FilesIn(tempDir)}
         imageFiles == SortStrings({f \in files :
                          startsWith(f, <<"p","a","g","e">>) /\ endsWith(f, <<".","p","n","g">>)})
     IN  IF DirExists(tempDir) /\ Len(imageFiles) > 0
         THEN /\ pLocal' = [pLocal EXCEPT ![j].listing = imageFiles]
              /\ Goto(j, "readFile")
         ELSE /\ pLocal' = [pLocal EXCEPT ![j].images = <<>>, ![j].imagesBy = <<>>,
                              ![j].after = "images"]
              /\ Goto(j, "cleanup")
  /\ UNCHANGED <<fsDirs, fsFiles, uuidsDrawn, touched>>

\* lines 208-226: readFile of the next page file; the loop ends with the last
\* one, and an error makes convertToImages return []
PdfReadFile(j) ==
  /\ pPc[j] = "readFile"
  /\ LET my        == pLocal[j]
         tempDir   == TempDir(my.jobId)
         imageFile == Head(my.listing)
         found     == {f \in FilesIn(tempDir) : f.name = imageFile}
         file      == CHOOSE f \in found : TRUE
         dataUrl   == <<"d","a","t","a",":","i","m","a","g","e","/","p","n","g",";","b","a","s","e","6","4",",">> \o Base64Encode(file.bytes)
     IN  IF found = {}
         THEN /\ pLocal' = [pLocal EXCEPT ![j].images = <<>>, ![j].imagesBy = <<>>,
                              ![j].listing = <<>>, ![j].after = "images"]
              /\ Goto(j, "cleanup")
              /\ UNCHANGED touched
         ELSE /\ pLocal' = [pLocal EXCEPT ![j].images = Append(my.images, dataUrl),
                              ![j].imagesBy = Append(my.imagesBy, file.by),
                              ![j].listing = Tail(my.listing),
                              ![j].after = IF Len(my.listing) = 1 THEN "images"
                                           ELSE my.after]
              /\ touched' = touched \cup {<<j, "read", file.by>>}
              /\ Goto(j, IF Len(my.listing) = 1 THEN "cleanup" ELSE "readFile")
  /\ UNCHANGED <<fsDirs, fsFiles, uuidsDrawn>>

\* unlink(path) of a directory: it is rejected and the directory stays
UnlinkDirectory(dirs, path) == dirs

\* the result of the call, without the test for an empty list of images
PdfResult_noImageCheck(my) ==
  LET metadata == Metadata(my.filename, PdfMime, my.size, Some(my.pageCount))
  IN  IF my.after = "text"
      THEN Success(Document("pdf", Some(my.textContent), None, metadata,
                            "text-extraction", FALSE))
      ELSE IF my.after = "images"
      THEN Success(Document("pdf", None, Some(my.images), metadata, "vision", TRUE))
      ELSE IF includes(my.error, <<"n","o","t"," ","f","o","u","n","d">>) \/ includes(my.error, <<"E","N","O","E","N","T">>)
           THEN Failure("PDF processing tools not installed. Please install poppler-utils.",
                        <<>>)
           ELSE Failure("PDF processing failed: ", my.error)

\* lines 78-92, 107-128, 133-147: the result of the call
PdfResult(my) ==
  LET metadata == Metadata(my.filename, PdfMime, my.size, Some(my.pageCount))
  IN  IF my.after = "text"
      THEN Success(Document("pdf", Some(my.textContent), None, metadata,
                            "text-extraction", FALSE))
      ELSE IF my.after = "images"
      THEN IF Len(my.images) = 0
           THEN Failure("Failed to convert PDF to images. The file may be corrupted.",
                        <<>>)
           ELSE Success(Document("pdf", None, Some(my.images), metadata,
                                 "vision", TRUE))
      ELSE IF includes(my.error, <<"n","o","t"," ","f","o","u","n","d">>) \/ includes(my.error, <<"E","N","O","E","N","T">>)
           THEN Failure("PDF processing tools not installed. Please install poppler-utils.",
                        <<>>)
           ELSE Failure("PDF processing failed: ", my.error)

\* the images a call returns, by the job that wrote the file of each
Returned(j) ==
  IF pLocal[j].after = "images"
  THEN {<<j, "return", pLocal[j].imagesBy[i]>> : i \in 1..Len(pLocal[j].imagesBy)}
  ELSE {}

\* cleanup is over: the call resumes after it and returns its result
PdfReturn(j) ==
  /\ pLocal' = [pLocal EXCEPT ![j].listing = <<>>,
                              ![j].result = PdfResult(pLocal[j])]
  /\ Goto(j, "returned")

\* line 234: readdir(tempDir) in cleanup; when it rejects cleanup is over
PdfCleanupReaddir(j) ==
  /\ pPc[j] = "cleanup"
  /\ LET tempDir == TempDir(pLocal[j].jobId)
     IN  IF DirExists(tempDir)
         THEN /\ pLocal' = [pLocal EXCEPT ![j].listing =
                              SortStrings({f.name : f \in FilesIn(tempDir)})]
              /\ Goto(j, "unlink")
              /\ UNCHANGED touched
         ELSE /\ PdfReturn(j)
              /\ touched' = touched \cup Returned(j)
  /\ UNCHANGED <<fsDirs, fsFiles, uuidsDrawn>>

\* lines 235-238: the files listed are unlinked, then unlink(tempDir) is tried
\* unless one of them was gone; cleanup is over
PdfCleanupUnlink(j) ==
  /\ pPc[j] = "unlink"
  /\ LET tempDir == TempDir(pLocal[j].jobId)
         files   == {pLocal[j].listing[i] : i \in 1..Len(pLocal[j].listing)}
         gone    == {f \in FilesIn(tempDir) : f.name \in files}
     IN  /\ fsFiles' = fsFiles \ gone
         /\ touched' = touched \cup {<<j, "delete", f.by>> : f \in gone}
                               \cup Returned(j)
         /\ fsDirs' = IF {f.name : f \in gone} = files
                      THEN UnlinkDirectory(fsDirs, tempDir)
                      ELSE fsDirs
  /\ PdfReturn(j)
  /\ UNCHANGED uuidsDrawn

\* a caller calls PdfProcessor.process
PdfCall(j, dataUrl) == PdfStart(j, dataUrl, <<"c","s",".","p","d","f">>)

PdfStep(j) ==
  \/ PdfMkdir(j)
  \/ PdfWriteFile(j)
  \/ PdfGetPageCount(j)
  \/ PdfExtractText(j)
  \/ PdfToPpm(j)
  \/ PdfReaddir(j)
  \/ PdfReadFile(j)
  \/ PdfCleanupReaddir(j)
  \/ PdfCleanupUnlink(j)

\* the data URLs PdfProcessor.process is called with
PdfInputs ==
  { <<"d","a","t","a",":","a","p","p","l","i","c","a","t","i","o","n","/","p","d","f",";","b","a","s","e","6","4",",","J","V","B","E","R","i","0","=">>,
    <<"d","a","t","a",":","a","p","p","l","i","c","a","t","i","o","n","/","p","d","f",",","%","2","5","P","D","F","-">> }

----------------------------------------------------------------------------
(* DocumentProcessingService *)

\* the processors in the order the constructor registers them, Text first
processors_textFirst == <<"text", "pdf", "word", "excel", "image">>

\* the processors in the order the constructor registers them
processors == <<"pdf", "word", "excel", "image", "text">>

\* detectType with the test for an image ahead of the test for a PDF
detectType_imageFirst(content, mimeTypeHint) ==
  IF \/ startsWith(content, <<"d","a","t","a",":","i","m","a","g","e","/">>)
     \/ (mimeTypeHint # Null /\ startsWith(mimeTypeHint, <<"i","m","a","g","e","/">>))
  THEN "image"
  ELSE IF \/ startsWith(content, <<"d","a","t","a",":","a","p","p","l","i","c","a","t","i","o","n","/","p","d","f">>)
          \/ mimeTypeHint = PdfMime
  THEN "pdf"
  ELSE IF \/ startsWith(content, <<"d","a","t","a",":","t","e","x","t","/">>)
          \/ (mimeTypeHint # Null /\ startsWith(mimeTypeHint, <<"t","e","x","t","/">>))
          \/ ~startsWith(content, <<"d","a","t","a",":">>)
  THEN "text"
  ELSE "unknown"

detectType(content, mimeTypeHint) ==
  IF \/ startsWith(content, <<"d","a","t","a",":","a","p","p","l","i","c","a","t","i","o","n","/","p","d","f">>)
     \/ mimeTypeHint = PdfMime
  THEN "pdf"
  ELSE IF \/ startsWith(content, <<"d","a","t","a",":","i","m","a","g","e","/">>)
          \/ (mimeTypeHint # Null /\ startsWith(mimeTypeHint, <<"i","m","a","g","e","/">>))
  THEN "image"
  ELSE IF \/ startsWith(content, <<"d","a","t","a",":","t","e","x","t","/">>)
          \/ (mimeTypeHint # Null /\ startsWith(mimeTypeHint, <<"t","e","x","t","/">>))
          \/ ~startsWith(content, <<"d","a","t","a",":">>)
  THEN "text"
  ELSE "unknown"

\* processor.canProcess(content, mimeTypeHint)
canProcess(processor, content, mimeTypeHint) ==
  CASE processor = "pdf"   -> PdfProcessor_canProcess(content, mimeTypeHint)
    [] processor = "word"  -> WordProcessor_canProcess(content, mimeTypeHint)
    [] processor = "excel" -> ExcelProcessor_canProcess(content, mimeTypeHint)
    [] processor = "image" -> ImageProcessor_canProcess(content, mimeTypeHint)
    [] processor = "text"  -> TextProcessor_canProcess(content, mimeTypeHint)

\* the loop of process from index i on: the index of the processor it calls,
\* 0 when it runs off the list
RECURSIVE FindProcessor(_, _, _)
FindProcessor(i, content, mimeTypeHint) ==
  IF i > Len(processors) THEN 0
  ELSE IF canProcess(processors[i], content, mimeTypeHint) THEN i
  ELSE FindProcessor(i + 1, content, mimeTypeHint)

NoProcessorFound ==
  Failure("Unsupported document format. Supported formats: PDF, Word (.docx), Excel (.xlsx), PNG, JPG, GIF, WebP, plain text.",
          <<>>)

Filename == <<"c","a","l","l","s","h","e","e","t">>

VARIABLES
  rPc,            \* "idle", "await" (a processor is working), "settled", "done"
  rContent,       \* the content of the request
  rHint,          \* its MIME type hint, Null when there is none
  rDetected,      \* what detectType made of them
  rCalls,         \* the processors whose process was called, in order
  rAdapterResult, \* what the processor's process resolved to
  rResult         \* what DocumentProcessingService.process returned

rvars == <<rPc, rContent, rHint, rDetected, rCalls, rAdapterResult, rResult>>

RInit ==
  /\ rPc = "idle"
  /\ rContent = <<>>
  /\ rHint = Null
  /\ rDetected = "unknown"
  /\ rCalls = <<>>
  /\ rAdapterResult = Pending
  /\ rResult = Pending

\* lines 82-94 and 113-123: the type is detected, the loop finds the processor
\* and calls its process, or runs off the list
RouterCall(content, mimeTypeHint) ==
  /\ rPc = "idle"
  /\ rContent' = content
  /\ rHint' = mimeTypeHint
  /\ rDetected' = detectType(content, mimeTypeHint)
  /\ UNCHANGED rAdapterResult
  /\ LET i == FindProcessor(1, content, mimeTypeHint)
     IN  IF i = 0
         THEN /\ rCalls' = <<>>
              /\ rResult' = NoProcessorFound
              /\ rPc' = "done"
              /\ UNCHANGED pvars
         ELSE /\ rCalls' = <<processors[i]>>
              /\ rPc' = "await"
              /\ UNCHANGED rResult
              /\ IF processors[i] = "pdf"
                 THEN PdfStart(1, content, Filename)
                 ELSE UNCHANGED pvars

\* the promise of the processor called last resolves to result
Settle(processor, result) ==
  /\ rPc = "await"
  /\ rCalls[Len(rCalls)] = processor
  /\ rAdapterResult' = result
  /\ rPc' = "settled"
  /\ UNCHANGED <<rContent, rHint, rDetected, rCalls, rResult>>

WordReturns(extracted) ==
  Settle("word", WordProcessor_process(rContent, Filename, extracted))

ExcelReturns(workbook) ==
  Settle("excel", ExcelProcessor_process(rContent, Filename, workbook))

ImageReturns == Settle("image", ImageProcessor_process(rContent, Filename))

TextReturns == Settle("text", TextProcessor_process(rContent, Filename))

PdfReturns ==
  /\ pPc[1] = "returned"
  /\ Settle("pdf", pLocal[1].result)

\* lines 94-109: the await resumes and the result is returned
RouterReturn ==
  /\ rPc = "settled"
  /\ rResult' = rAdapterResult
  /\ rPc' = "done"
  /\ UNCHANGED <<rContent, rHint, rDetected, rCalls, rAdapterResult>>

\* the contents a document arrives with
Contents ==
  { <<"C","a","l","l"," ","s","h","e","e","t",":"," ","d","a","y"," ","3">>,
    <<"h","i">>,
    <<"d","a","t","a",":","a","p","p","l","i","c","a","t","i","o","n","/","p","d","f",";","b","a","s","e","6","4",",","J","V","B","E","R","i","0","=">>,
    <<"d","a","t","a",":","a","p","p","l","i","c","a","t","i","o","n","/","p","d","f",",","%","2","5","P","D","F","-">>,
    <<"d","a","t","a",":","a","p","p","l","i","c","a","t","i","o","n","/","v","n","d",".","o","p","e","n","x","m","l","f","o","r","m","a","t","s","-","o","f","f","i","c","e","d","o","c","u","m","e","n","t",".","w","o","r","d","p","r","o","c","e","s","s","i","n","g","m","l",".","d","o","c","u","m","e","n","t",";","b","a","s","e","6","4",",","U","E","s","D">>,
    <<"d","a","t","a",":","a","p","p","l","i","c","a","t","i","o","n","/","v","n","d",".","o","p","e","n","x","m","l","f","o","r","m","a","t","s","-","o","f","f","i","c","e","d","o","c","u","m","e","n","t",".","s","p","r","e","a","d","s","h","e","e","t","m","l",".","s","h","e","e","t",";","b","a","s","e","6","4",",","U","E","s","D">>,
    <<"d","a","t","a",":","a","p","p","l","i","c","a","t","i","o","n","/","v","n","d",".","m","s","-","e","x","c","e","l",";","b","a","s","e","6","4",",","0","M","8","R">>,
    <<"d","a","t","a",":","i","m","a","g","e","/","p","n","g",";","b","a","s","e","6","4",",","i","V","B","O","R","w","=","=">>,
    <<"d","a","t","a",":","i","m","a","g","e","/","b","m","p",";","b","a","s","e","6","4",",","Q","k","0","=">>,
    <<"d","a","t","a",":","i","m","a","g","e","/","s","v","g","+","x","m","l",";","b","a","s","e","6","4",",","P","H","N","2","Z","z","4","=">>,
    <<"d","a","t","a",":","t","e","x","t","/","p","l","a","i","n",";","b","a","s","e","6","4",",","Q","2","F","s","b","C","B","z","a","G","V","l","d","C","B","k","Y","X","k","g","M","w","=","=">>,
    <<"d","a","t","a",":","t","e","x","t","/","p","l","a","i","n",",","C","a","l","l","%","2","0","s","h","e","e","t","%","2","0","d","a","y","%","2","0","3">>,
    <<"d","a","t","a",":","t","e","x","t","/","p","l","a","i","n",",","1","0","0","%">>,
    <<"d","a","t","a",":","a","p","p","l","i","c","a","t","i","o","n","/","z","i","p",";","b","a","s","e","6","4",",","U","E","s","D">> }

\* the MIME type hints it arrives with
Hints ==
  { Null,
    <<>>,
    PdfMime,
    WordMime,
    <<"a","p","p","l","i","c","a","t","i","o","n","/","m","s","w","o","r","d">>,
    ExcelMime,
    <<"a","p","p","l","i","c","a","t","i","o","n","/","v","n","d",".","m","s","-","e","x","c","e","l">>,
    <<"i","m","a","g","e","/","p","n","g">>,
    <<"i","m","a","g","e","/","b","m","p">>,
    <<"t","e","x","t","/","p","l","a","i","n">>,
    <<"a","p","p","l","i","c","a","t","i","o","n","/","z","i","p">> }

\* what mammoth extracts from a document
WordOutcomes ==
  { Raise,
    <<"C","r","e","w"," ","l","i","s","t">>,
    Repeat(" ", 2) \o Repeat("w", WORD_MIN_TEXT_LENGTH - 1),
    Repeat("w", WORD_MIN_TEXT_LENGTH) }

Sheet(name, data) == [name |-> name, data |-> data]

Workbook(threw, sheets) == [threw |-> threw, sheets |-> sheets]

\* what XLSX reads from a workbook
ExcelOutcomes ==
  { Workbook(TRUE, <<>>),
    Workbook(FALSE, <<>>),
    Workbook(FALSE, <<Sheet(<<"C","r","e","w">>, <<>>)>>),
    Workbook(FALSE, <<Sheet(<<"C","r","e","w">>, << <<<<"N","a","m","e">>, <<"P","h","o","n","e">>>>, <<<<" ">>, <<>> >> >>)>>),
    Workbook(FALSE,
      <<Sheet(<<"C","r","e","w">>,
              << <<<<"N","a","m","e">>, <<"R","o","l","e">>, <<"P","h","o","n","e">>>>,
                 <<<<"J","o","h","n"," ","S","m","i","t","h">>, <<"D","i","r","e","c","t","o","r"," ","o","f"," ","P","h","o","t","o","g","r","a","p","h","y">>, <<"5","5","5","-","1","2","3","-","4","5","6","7">>>> >>),
        Sheet(<<"N","o","t","e","s">>, <<>>)>>) }

----------------------------------------------------------------------------
(* Calls of ImageProcessor.process and of NameNormalizer.normalize *)

VARIABLES
  iHead,     \* the data URL of the last call of ImageProcessor.process, up to
             \* where its payload is written out
  iMore,     \* how many characters of payload follow
  iResult,   \* what the call returned
  nmPc,      \* "idle", "once" (normalize was applied), "twice" (and again)
  nmIn,      \* the name NameNormalizer.normalize was called with
  nmOut,     \* what it returned
  nmAgain    \* what it returned for nmOut

ivars == <<iHead, iMore, iResult>>

nmvars == <<nmPc, nmIn, nmOut, nmAgain>>

IInit ==
  /\ iHead = <<>>
  /\ iMore = 0
  /\ iResult = Pending

NmInit ==
  /\ nmPc = "idle"
  /\ nmIn = Null
  /\ nmOut = Null
  /\ nmAgain = Null

\* a caller calls ImageProcessor.process with head followed by more characters
ImageCall(head, more) ==
  /\ iHead' = head
  /\ iMore' = more
  /\ iResult' = ImageProcessor_processPadded(head, more, Filename)

\* a caller calls NameNormalizer.normalize
NameCall(name) ==
  /\ nmPc = "idle"
  /\ nmPc' = "once"
  /\ nmIn' = name
  /\ nmOut' = NameNormalizer_normalize(name)
  /\ nmAgain' = Null

\* and calls it again with what it returned
NameCallAgain ==
  /\ nmPc = "once"
  /\ nmPc' = "twice"
  /\ nmAgain' = NameNormalizer_normalize(nmOut)
  /\ UNCHANGED <<nmIn, nmOut>>

\* the data URLs ImageProcessor.process is called with, up to the payload
ImageHeads ==
  { <<"d","a","t","a",":","i","m","a","g","e","/","p","n","g",";","b","a","s","e","6","4",",">>,
    <<"d","a","t","a",":","i","m","a","g","e","/","j","p","e","g",";","b","a","s","e","6","4",",">>,
    <<"d","a","t","a",":","i","m","a","g","e","/","j","p","g",";","b","a","s","e","6","4",",">>,
    <<"d","a","t","a",":","i","m","a","g","e","/","g","i","f",";","b","a","s","e","6","4",",">>,
    <<"d","a","t","a",":","i","m","a","g","e","/","w","e","b","p",";","b","a","s","e","6","4",",">>,
    <<"d","a","t","a",":","i","m","a","g","e","/","b","m","p",";","b","a","s","e","6","4",",">>,
    <<"d","a","t","a",":","i","m","a","g","e","/","t","i","f","f",";","b","a","s","e","6","4",",">>,
    <<"d","a","t","a",":","i","m","a","g","e","/","s","v","g","+","x","m","l",";","b","a","s","e","6","4",",">>,
    <<"d","a","t","a",":","i","m","a","g","e","/","p","n","g",";","b","a","s","e","6","4",",","i","V","B","O","R","w","=","=">>,
    <<"d","a","t","a",":","i","m","a","g","e","/","p","n","g",",","%","8","9","P","N","G">>,
    <<"d","a","t","a",":","a","p","p","l","i","c","a","t","i","o","n","/","p","d","f",";","b","a","s","e","6","4",",">>,
    <<"C","a","l","l"," ","s","h","e","e","t",":"," ","d","a","y"," ","3">> }

\* the longest payload MAX_IMAGE_SIZE lets through: ceil(n * 3 / 4) is
\* 20 * 1024 * 1024
LongestPayload == (MAX_IMAGE_SIZE * 4) \div 3

\* how many characters of payload follow the head
ImagePayloads ==
  {0, 1, 2, 3, 4, 5, LongestPayload - 9, LongestPayload - 8, LongestPayload - 1,
   LongestPayload, LongestPayload + 1, 2 * LongestPayload}

\* the words of the names NameNormalizer.normalize is called with
NameWords ==
  { <<"m","c","d","o","n","a","l","d">>, <<"M","C","D","O","N","A","L","D">>, <<"m","c">>, <<"m","a","c","y">>, <<"m","a","c">>, <<"o","'","b","r","i","e","n">>, <<"O","'">>,
    <<"m","c","-","x">>, <<"j","e","a","n","-","c","l","a","u","d","e">>, <<"a","-">>, <<"v","a","n">>, <<"D","E">>, <<"d","a","m","m","e">>, <<"x">>,
    <<LigatureFi,"o","n","a">>, <<"o","'",LigatureFi>> }

\* what separates two words, and what may stand before and after a name
NameSeparators == { <<" ">>, <<" "," ">>, <<"\t"," ">> }

NameInputs ==
  {Null, <<>>, <<" ">>, <<"j","e","a","n","-","c","l","a","u","d","e"," ","v","a","n"," ","d","a","m","m","e">>}
    \cup NameWords
    \cup {a \o sep \o b : a \in NameWords, b \in NameWords, sep \in NameSeparators}
    \cup {sep \o a \o sep : a \in NameWords, sep \in NameSeparators}
----------------------------------------------------------------------------
(* Calls of PhoneNormalizer *)

VARIABLES
  phIn,      \* the phone PhoneNormalizer.normalize and isValid were called with
  phOut      \* None, or what the two calls returned

phvars == <<phIn, phOut>>

PhInit ==
  /\ phIn = Null
  /\ phOut = None

\* a caller calls PhoneNormalizer.normalize and PhoneNormalizer.isValid
PhoneCall(phone) ==
  /\ phIn' = phone
  /\ phOut' = Some([ normalized |-> PhoneNormalizer_normalize(phone),
                     valid      |-> PhoneNormalizer_isValid(phone) ])

\* digit strings of 0 to 17 digits, with and without a leading 1
DigitRuns ==
  {SubSeq(<<"1","5","5","5","1","2","3","4","5","6","7","8","9","0","1","2","3">>, 1, n) : n \in 0..17}
    \cup {SubSeq(<<"4","4","2","0","1","2","3","4","5","6","7","8","9","0","1","2","3">>, 1, n) : n \in 0..17}

\* s with sep after every third character
RECURSIVE Grouped(_, _)
Grouped(s, sep) ==
  IF Len(s) <= 3 THEN s
  ELSE SubSeq(s, 1, 3) \o sep \o Grouped(SubSeq(s, 4, Len(s)), sep)

\* the phones the calls are made with
PhoneInputs ==
  {Null, <<>>, <<"a","b","c">>, <<"+">>, <<"n","/","a">>, <<"5","5","5","-","1","2","3","-","4","5","6","7">>, <<"1","5","5","5","1","2","3","4","5","6","7">>,
   <<"+","4","4","2","0","1","2","3","4","5","6","7","8">>, <<"(","5","5","5",")"," ","1","2","3","-","4","5","6","7">>, <<"1"," ","(","5","5","5",")"," ","1","2","3","-","4","5","6","7"," ","e","x","t","."," ","8","9">>}
    \cup DigitRuns
    \cup {<<"+">> \o d : d \in DigitRuns}
    \cup {Grouped(d, <<"-">>) : d \in DigitRuns}
    \cup {<<"t","e","l"," ">> \o Grouped(d, <<".">>) : d \in DigitRuns}
----------------------------------------------------------------------------
(* extractContacts *)

MAX_RETRIES == 3

\* line 62: document.requiresVision && document.images?.length
UsesVision_never(document) == FALSE

UsesVision(document) ==
  /\ document.requiresVision
  /\ document.images # None
  /\ Len(document.images[1]) > 0

\* line 70: document.textContent is there and not the empty string
HasTextContent(document) ==
  document.textContent # None /\ Len(document.textContent[1]) > 0

VARIABLES
  ePc,       \* "idle", "process" (awaiting documentProcessor.process), "ai"
             \* (awaiting the extraction), "returned", "raised"
  eTrace,    \* the services extractContacts has called, in order
  eGiven,    \* what the extraction was called with
  eAttempt,  \* the attempt the extraction is at, 0 when there is none
  eOut       \* None, or what extractContacts returned or raised

evars == <<ePc, eTrace, eGiven, eAttempt, eOut>>

EInit ==
  /\ ePc = "idle"
  /\ eTrace = <<>>
  /\ eGiven = None
  /\ eAttempt = 0
  /\ eOut = None

\* lines 103-107: whatever was thrown is thrown on with a prefix
ExtractRaise(message) ==
  /\ ePc' = "raised"
  /\ eOut' = Some([raised |-> TRUE, message |-> <<"Extraction failed: ", message>>])
  /\ eAttempt' = 0

\* lines 39-51: extractContacts calls documentProcessor.process
ExtractCall(documentContent, documentType) ==
  /\ ePc = "idle"
  /\ RouterCall(documentContent, documentType)
  /\ ePc' = "process"
  /\ eTrace' = <<"process">>
  /\ UNCHANGED <<eGiven, eAttempt, eOut>>

\* lines 53-80: process has returned; extractContacts raises or calls one of
\* the two extractions
ExtractRouted ==
  /\ ePc = "process"
  /\ rPc = "done"
  /\ IF ~rResult.success \/ rResult.document = None
     THEN /\ ExtractRaise(IF rResult.error = None \/ rResult.error[1][1] = ""
                          THEN "Document processing failed"
                          ELSE rResult.error[1][1])
          /\ UNCHANGED <<eTrace, eGiven>>
     ELSE LET document == rResult.document[1]
          IN  IF UsesVision(document)
              THEN /\ eTrace' = Append(eTrace, "extractFromImages")
                   /\ eGiven' = Some(document.images[1])
                   /\ ePc' = "ai"
                   /\ eAttempt' = 1
                   /\ UNCHANGED eOut
              ELSE IF HasTextContent(document)
              THEN /\ eTrace' = Append(eTrace, "extractFromText")
                   /\ eGiven' = Some(document.textContent[1])
                   /\ ePc' = "ai"
                   /\ eAttempt' = 1
                   /\ UNCHANGED eOut
              ELSE /\ ExtractRaise("Document has no extractable content")
                   /\ UNCHANGED <<eTrace, eGiven>>
  /\ UNCHANGED <<rvars, pvars>>

\* openai.client.ts lines 48-93 and 114-174: the request of one attempt fails
\* with an error that is retried, and attempts are left
ExtractionRetried ==
  /\ ePc = "ai"
  /\ eAttempt < MAX_RETRIES
  /\ eAttempt' = eAttempt + 1
  /\ UNCHANGED <<ePc, eTrace, eGiven, eOut, rvars, pvars>>

\* the extraction gives up: the error is not one that is retried, the answer
\* was empty, or the last attempt failed
ExtractionFailed ==
  /\ ePc = "ai"
  /\ ExtractRaise(IF eTrace[Len(eTrace)] = "extractFromImages"
                  THEN "Vision extraction failed: " ELSE "Extraction failed: ")
  /\ UNCHANGED <<eTrace, eGiven, rvars, pvars>>

\* lines 82-102: the extraction returned rawExtraction; normalize is called
\* with it and its result is returned, or what it throws is thrown on
ExtractionReturned(rawExtraction) ==
  /\ ePc = "ai"
  /\ eTrace' = Append(eTrace, "normalize")
  /\ eAttempt' = 0
  /\ LET built == Build(<<>>, rawExtraction)
     IN  \E r \in {normalize(built.heap, built.root, DEFAULT_CONFIG)} :
           IF r.threw
           THEN /\ ePc' = "raised"
                /\ eOut' = Some([raised |-> TRUE,
                                 message |-> <<"Extraction failed: ", "TypeError">>])
           ELSE /\ ePc' = "returned"
                /\ eOut' = Some([ raised     |-> FALSE,
                                  raw        |-> Deref(r.heap, built.root),
                                  normalized |-> Deref(r.heap, r.data),
                                  stats      |-> r.stats,
                                  issues     |-> r.issues ])
  /\ UNCHANGED <<eGiven, rvars, pvars>>

\* what the extraction may return
AiResults ==
  { Extraction(<<>>, [emergency_contacts |-> <<>>, locations |-> <<>>]),
    Extraction(<< Contact(<<"d","a","v","e"," ","o","'","n","e","i","l">>, <<"d","p">>, Null, <<"5","5","5","1","2","3","4","5","6","7">>, Null, Null, 90),
                  Contact(<<"D","a","v","e"," ","O","'","N","e","i","l">>, Null, Null, <<"5","5","5","-","1","2","3","-","4","5","6","7">>, Null, Null, 80) >>,
               [emergency_contacts |-> <<Hospital>>, locations |-> <<Stage>>]),
    Extraction(<< Contact(<<"x"," ","y">>, <<"c","o","n","s","t","r","u","c","t","o","r">>, Null, Null, Null, Null, 60) >>,
               [emergency_contacts |-> <<>>, locations |-> <<>>]) }
----------------------------------------------------------------------------
(* Calls of TextProcessor.process with plain text *)

VARIABLES
  tIn,       \* the text TextProcessor.process was called with
  tResult    \* Pending, or what the call returned

tvars == <<tIn, tResult>>

TInit ==
  /\ tIn = <<>>
  /\ tResult = Pending

\* a caller calls TextProcessor.process with text that is no data URL
TextCall(text) ==
  /\ tResult = Pending
  /\ tIn' = text
  /\ tResult' = TextProcessor_process(text, Filename)

\* a text of length characters: letters, with lead spaces first, a paragraph
\* break at index paragraph, a line break at index line and a sentence end at
\* index period (0-based; -1 for none)
LongText(length, lead, paragraph, line, period) ==
  Tuple([i \in 1..length |->
           IF i <= lead THEN " "
           ELSE IF paragraph # -1 /\ i - 1 \in {paragraph, paragraph + 1} THEN "\n"
           ELSE IF line # -1 /\ i - 1 = line THEN "\n"
           ELSE IF period # -1 /\ i - 1 = period THEN "."
           ELSE IF period # -1 /\ i - 1 = period + 1 THEN " "
           ELSE "a"])

\* the texts of more than MAX_TEXT_LENGTH characters: breaks of each kind on
\* both sides of 70% of the target length and of the target length, alone
\* and together with breaks of the kinds tried before them
LongTexts ==
  {LongText(TEXT_MAX_TEXT_LENGTH + 1, 0, paragraph, -1, -1) :
     paragraph \in {-1, 34929, 34930, 49900, 49901}}
    \cup {LongText(TEXT_MAX_TEXT_LENGTH + 1, 0, paragraph, line, period) :
            paragraph \in {-1, 34929},
            line \in {34920, 34940},
            period \in {-1, 49900}}
    \cup {LongText(TEXT_MAX_TEXT_LENGTH + 1, 0, -1, line, period) :
            line \in {-1, 34920},
            period \in {34928, 34929, 49900}}
    \cup {LongText(TEXT_MAX_TEXT_LENGTH + 1, 1, -1, -1, period) :
            period \in {-1, 34929}}

\* the texts of at most MAX_TEXT_LENGTH characters
ShortTexts ==
  {LongText(length, 0, -1, -1, -1) : length \in 0..90}
    \cup {LongText(TEXT_MAX_TEXT_LENGTH, lead, -1, 40000, -1) : lead \in {0, 1}}
----------------------------------------------------------------------------
(* Calls of RoleNormalizer.normalizeRole *)

VARIABLES
  rlIn,      \* the role normalizeRole was called with
  rlOut      \* None, or what the call returned

rlvars == <<rlIn, rlOut>>

RlInit ==
  /\ rlIn = Null
  /\ rlOut = None

\* a caller calls RoleNormalizer.normalizeRole
RoleCall(role) ==
  /\ rlIn' = role
  /\ rlOut' = Some(normalizeRole(role))

\* the abbreviations of the table
Abbreviations == {ROLE_MAPPINGS[k][1] : k \in 1..Len(ROLE_MAPPINGS)}

\* the roles the calls are made with
RoleInputs ==
  {Null, <<>>, <<" ">>, <<"c","o","n","s","t","r","u","c","t","o","r">>, <<" ","C","o","n","s","t","r","u","c","t","o","r"," ">>, <<"_","_","p","r","o","t","o","_","_">>,
   <<"c","o","n","s","t","r","u","c","t","i","o","n"," ","l","e","a","d">>, <<"c","h","e","f">>, <<" "," ","c","r","a","f","t"," "," ","s","e","r","v","i","c","e"," ">>, <<"S","T","U","N","T"," ","d","o","u","b","l","e">>,
   <<"L","o","c","a","t","i","o","n"," ","s","c","o","u","t">>, <<LigatureFi,"x","e","r">>, <<"h","e","a","d"," ",LigatureFi,"x","e","r">>, <<"v","f","x"," "," ","l","e","a","d">>,
   <<"D","i","r","e","c","t","o","r"," ","o","f"," ","P","h","o","t","o","g","r","a","p","h","y">>, <<"1","s","t"," ","a","d"," ","/"," ","p","r","o","d","u","c","e","r">>}
    \cup Abbreviations
    \cup {<<" ">> \o toUpperCase(a) \o <<" ">> : a \in Abbreviations}
    \cup {<<"h","e","a","d"," ">> \o a : a \in Abbreviations}
----------------------------------------------------------------------------
(* Specifications *)

\* the variables of the calls of single operations
cvars == <<ivars, nmvars, phvars, evars, tvars, rlvars>>

ovars == <<rvars, pvars, cvars>>

NNext ==
  \/ \E e \in ExtractionInputs, config \in Configs :
       NormalizeCall(e, config) /\ UNCHANGED <<dvars, ovars>>
  \/ NormalizeAgain /\ UNCHANGED <<dvars, ovars>>
  \/ \E e \in ExtractionInputs : ValidateCall(e) /\ UNCHANGED <<dvars, ovars>>
  \/ NormalizeDone /\ UNCHANGED <<dvars, ovars>>

DNext ==
  \/ \E cs \in ListsOf(ContactPool, MaxDedup) \cup ListsOf(KeyPool, MaxDedup) :
       DeduplicateCall(cs) /\ UNCHANGED <<nvars, ovars>>
  \/ DeduplicateDone /\ UNCHANGED <<nvars, ovars>>

\* one document goes through the service; a PDF runs as job 1
RNext ==
  \/ \E content \in Contents, hint \in Hints :
       RouterCall(content, hint) /\ UNCHANGED <<nvars, dvars, cvars>>
  \/ \E extracted \in WordOutcomes :
       WordReturns(extracted) /\ UNCHANGED <<nvars, dvars, cvars, pvars>>
  \/ \E workbook \in ExcelOutcomes :
       ExcelReturns(workbook) /\ UNCHANGED <<nvars, dvars, cvars, pvars>>
  \/ ImageReturns /\ UNCHANGED <<nvars, dvars, cvars, pvars>>
  \/ TextReturns /\ UNCHANGED <<nvars, dvars, cvars, pvars>>
  \/ PdfReturns /\ UNCHANGED <<nvars, dvars, cvars, pvars>>
  \/ RouterReturn /\ UNCHANGED <<nvars, dvars, cvars, pvars>>
  \/ PdfStep(1) /\ UNCHANGED <<nvars, dvars, cvars, rvars>>

\* callers start PDF jobs directly; their steps interleave
PNext ==
  \/ \E j \in Jobs, dataUrl \in PdfInputs :
       PdfCall(j, dataUrl) /\ UNCHANGED <<nvars, dvars, cvars, rvars>>
  \/ \E j \in Jobs : PdfStep(j) /\ UNCHANGED <<nvars, dvars, cvars, rvars>>

\* images are handed to ImageProcessor.process one after the other
INext ==
  \E head \in ImageHeads, more \in ImagePayloads :
    ImageCall(head, more) /\ UNCHANGED <<nvars, dvars, rvars, pvars, nmvars, phvars, evars, tvars, rlvars>>

\* names are handed to NameNormalizer.normalize, and what it returns again
NmNext ==
  \/ \E name \in NameInputs :
       NameCall(name) /\ UNCHANGED <<nvars, dvars, rvars, pvars, ivars, phvars, evars, tvars, rlvars>>
  \/ NameCallAgain /\ UNCHANGED <<nvars, dvars, rvars, pvars, ivars, phvars, evars, tvars, rlvars>>

\* phones are handed to PhoneNormalizer one after the other
PhNext ==
  \E phone \in PhoneInputs :
    PhoneCall(phone) /\ UNCHANGED <<nvars, dvars, rvars, pvars, ivars, nmvars, evars, tvars, rlvars>>

\* texts are handed to TextProcessor.process
TNext ==
  \E text \in LongTexts \cup ShortTexts :
    TextCall(text) /\ UNCHANGED <<nvars, dvars, rvars, pvars, ivars, nmvars, phvars, evars, rlvars>>

\* roles are handed to RoleNormalizer.normalizeRole one after the other
RlNext ==
  \E role \in RoleInputs :
    RoleCall(role) /\ UNCHANGED <<nvars, dvars, rvars, pvars, ivars, nmvars, phvars, evars, tvars>>

\* the variables of the single calls other than extractContacts
svars == <<ivars, nmvars, phvars, tvars, rlvars>>

\* one request goes through extractContacts; a PDF runs as job 1
ENext ==
  \/ \E content \in Contents, documentType \in Hints :
       ExtractCall(content, documentType) /\ UNCHANGED <<nvars, dvars, svars>>
  \/ \E extracted \in WordOutcomes :
       WordReturns(extracted) /\ UNCHANGED <<nvars, dvars, cvars, pvars>>
  \/ \E workbook \in ExcelOutcomes :
       ExcelReturns(workbook) /\ UNCHANGED <<nvars, dvars, cvars, pvars>>
  \/ ImageReturns /\ UNCHANGED <<nvars, dvars, cvars, pvars>>
  \/ TextReturns /\ UNCHANGED <<nvars, dvars, cvars, pvars>>
  \/ PdfReturns /\ UNCHANGED <<nvars, dvars, cvars, pvars>>
  \/ RouterReturn /\ UNCHANGED <<nvars, dvars, cvars, pvars>>
  \/ PdfStep(1) /\ UNCHANGED <<nvars, dvars, cvars, rvars>>
  \/ ExtractRouted /\ UNCHANGED <<nvars, dvars, svars>>
  \/ ExtractionRetried /\ UNCHANGED <<nvars, dvars, svars>>
  \/ ExtractionFailed /\ UNCHANGED <<nvars, dvars, svars>>
  \/ \E rawExtraction \in AiResults :
       ExtractionReturned(rawExtraction) /\ UNCHANGED <<nvars, dvars, svars>>

vars == <<nvars, dvars, rvars, pvars, cvars>>

Init == NInit /\ DInit /\ RInit /\ PInit /\ IInit /\ NmInit /\ PhInit /\ EInit /\ TInit /\ RlInit

SpecNormalize == Init /\ [][NNext]_vars

SpecDeduplicate == Init /\ [][DNext]_vars

SpecRouter == Init /\ [][RNext]_vars

SpecPdf == Init /\ [][PNext]_vars

SpecImage == Init /\ [][INext]_vars

SpecName == Init /\ [][NmNext]_vars

SpecPhone == Init /\ [][PhNext]_vars

SpecExtract == Init /\ [][ENext]_vars

SpecText == Init /\ [][TNext]_vars

SpecRole == Init /\ [][RlNext]_vars

\* the data of the last normalize result, as a value
NData == Deref(heap, nOut.data)

----------------------------------------------------------------------------
(* Properties of the normalization engine *)

NormalizeReturned == nPc = "returned" /\ nRound \in {1, 2}

DefaultRun == NormalizeReturned /\ nConfig = DEFAULT_CONFIG /\ ~nOut.threw

\* C3: normalize never mutates its argument: after the call every object of
\* the caller's ExtractionResult (production_info, contacts, emergency
\* contacts, locations) holds what it held before the call, and no object
\* reachable from the returned data is an object reachable from the argument
C3_ArgumentNeverMutated ==
  NormalizeReturned =>
    /\ Deref(heap, nArg) = nArgValue
    /\ ~nOut.threw => Reach(heap, nOut.data) \cap Reach(heap, nArg) = {}

\* a call that changed names, phones and roles and merged two contacts
C3_Witness ==
  /\ NormalizeReturned
  /\ ~nOut.threw
  /\ nOut.stats.namesNormalized > 0
  /\ nOut.stats.phonesNormalized > 0
  /\ nOut.stats.duplicatesRemoved > 0
  /\ Len(nArgValue.emergency_contacts) > 0
  /\ NData # nArgValue

\* C4: normalize never raises for a well-typed ExtractionResult, and for an
\* input whose contacts list is empty its issues contain a warning and
\* stats.totalContacts is 0
C4_NeverRaisesWarnsOnEmpty ==
  (nPc = "returned" /\ nRound = 1) =>
    /\ ~nOut.threw
    /\ Len(nArgValue.contacts) = 0 =>
         /\ \E i \in 1..Len(nOut.issues) : nOut.issues[i].type = "warning"
         /\ nOut.stats.totalContacts = 0

\* the contacts as the per-contact step leaves them, before deduplication
Normalized(cs, config) ==
  Tuple([i \in 1..Len(cs) |-> NormalizeContact(cs[i], config).contact])

\* the distinct keys of a contacts list, in order of first appearance
RECURSIVE FirstSeen(_, _)
FirstSeen(ks, seen) ==
  IF Len(ks) = 0 THEN <<>>
  ELSE IF ks[1] \in seen THEN FirstSeen(Tail(ks), seen)
  ELSE <<ks[1]>> \o FirstSeen(Tail(ks), seen \cup {ks[1]})

KeysOf(cs) == Tuple([i \in 1..Len(cs) |-> generateKey(cs[i])])

\* C5: under the default configuration no two contacts of the output of
\* normalize have the same dedup key, recomputed on the output records, and
\* the record merged from the records of one key still has that key
C5_OutputKeysDistinct ==
  (DefaultRun /\ nRound = 1) =>
    LET out  == NData.contacts
        keys == FirstSeen(KeysOf(Normalized(nArgValue.contacts, nConfig)), {})
    IN  /\ \A i, j \in 1..Len(out) : i # j => generateKey(out[i]) # generateKey(out[j])
        /\ Len(out) = Len(keys)
        /\ \A i \in 1..Len(out) : generateKey(out[i]) = keys[i]

\* C6: normalize applied to the data a previous normalize returned (default
\* configuration) returns that data unchanged, with every change counter 0
C6_SecondRunChangesNothing ==
  (DefaultRun /\ nRound = 2) =>
    /\ NData = nArgValue
    /\ nOut.stats.phonesNormalized = 0
    /\ nOut.stats.namesNormalized = 0
    /\ nOut.stats.rolesNormalized = 0
    /\ nOut.stats.departmentsInferred = 0
    /\ nOut.stats.duplicatesRemoved = 0

----------------------------------------------------------------------------
(* Properties of the Deduplicator *)

\* the key as the claim words it: the parts joined with "|"
ClaimedKey(c) ==
  LET name   == CollapseSpaces(trim(toLowerCase(c.name)))
      digits == IF c.phone = Null THEN <<>> ELSE SelectSeq(c.phone, IsDigit)
      email  == IF c.email = Null THEN <<>> ELSE trim(toLowerCase(c.email))
  IN  IF Len(digits) >= 7 THEN join(<<name, digits>>, <<"|">>)
      ELSE IF Len(email) > 0 THEN join(<<name, email>>, <<"|">>)
      ELSE name

ClaimedKeys(cs) == Tuple([i \in 1..Len(cs) |-> ClaimedKey(cs[i])])

\* the positions in cs of the records with the k-th distinct claimed key
Group(cs, k) ==
  LET keys == FirstSeen(ClaimedKeys(cs), {})
  IN  {i \in 1..Len(cs) : ClaimedKey(cs[i]) = keys[k]}

\* C7: deduplicate groups contacts by the key (normalized name, joined with
\* the phone digits when there are at least 7, else with the normalized email
\* when present, else alone); the output has one record per distinct key, in
\* order of first appearance, and removedCount is the input length minus the
\* number of distinct keys
C7_OneRecordPerKeyInOrder ==
  dPc = "returned" =>
  LET keys == FirstSeen(ClaimedKeys(dIn), {})
      out  == dOut.contacts
  IN  /\ Len(out) = Len(keys)
      /\ dOut.removedCount = Len(dIn) - Len(keys)
      /\ \A k \in 1..Len(keys) :
            LET first == dIn[Min(Group(dIn, k))]
            IN  /\ first.name # <<>> => out[k].name = first.name
                /\ Cardinality(Group(dIn, k)) = 1 => out[k] = first

\* three contacts, two of one key, whose merged record comes second
C7_Witness ==
  /\ dPc = "returned"
  /\ Len(dIn) = 3
  /\ Len(dOut.contacts) = 2
  /\ dOut.removedCount = 1
  /\ Group(dIn, 2) = {2, 3}

\* the value of field f in the earliest record of the group where it is non-null
EarliestNonNull(cs, group, f, none) ==
  LET having == {i \in group : cs[i][f] # none}
  IN  IF having = {} THEN none ELSE cs[Min(having)][f]

\* notes merged record by record, as the claim words it
RECURSIVE ClaimedNotes(_, _, _)
ClaimedNotes(cs, group, acc) ==
  IF group = {} THEN acc
  ELSE LET i    == Min(group)
           next == cs[i].notes
           both == acc # Null /\ next # Null
       IN  ClaimedNotes(cs, group \ {i},
                        IF both /\ acc # next THEN acc \o <<";", " ">> \o next
                        ELSE IF acc # Null THEN acc ELSE next)

\* C8: the merged record of a group holds, for each of name, role, department,
\* phone, email and confidence, the value of the earliest record of the group
\* in which the field is non-null; its notes are joined with "; " when both
\* sides are non-null and differ, and are otherwise whichever is non-null
C8_MergeKeepsEarliestNonNull ==
  dPc = "returned" =>
  LET keys == FirstSeen(ClaimedKeys(dIn), {})
      out  == dOut.contacts
  IN  Len(out) = Len(keys) =>
        \A k \in 1..Len(keys) :
          /\ \A f \in {"name", "role", "department", "phone", "email"} :
                out[k][f] = EarliestNonNull(dIn, Group(dIn, k), f, Null)
          /\ out[k].confidence = EarliestNonNull(dIn, Group(dIn, k), "confidence", Undefined)
          /\ out[k].notes = ClaimedNotes(dIn, Group(dIn, k), Null)

----------------------------------------------------------------------------
(* Properties of the document processors *)

\* the order the claim names
ClaimedOrder == <<"pdf", "word", "excel", "image", "text">>

\* the adapters of that order that accept the request
Accepting == {i \in 1..Len(ClaimedOrder) : canProcess(ClaimedOrder[i], rContent, rHint)}

\* C1: for every content and hint, DocumentProcessingService.process calls
\* process on exactly one adapter, the first of PDF, Word, Excel, Image, Text
\* whose canProcess is true; it returns that adapter's result unchanged, success
\* or failure, and tries no later adapter; when no canProcess is true it calls
\* none and returns the NoProcessorFound failure.
C1_FirstAcceptingAdapterOnly ==
  rPc # "idle" =>
    IF Accepting = {}
    THEN /\ rCalls = <<>>
         /\ rPc = "done"
         /\ ~rResult.success
         /\ rResult = NoProcessorFound
    ELSE /\ rCalls = <<ClaimedOrder[Min(Accepting)]>>
         /\ rPc = "done" =>
              /\ rResult = rAdapterResult
              /\ rCalls = <<"pdf">> => rResult = pLocal[1].result
              /\ rCalls = <<"image">> => rResult = ImageProcessor_process(rContent, Filename)
              /\ rCalls = <<"text">> => rResult = TextProcessor_process(rContent, Filename)

\* the Image adapter failed on a request the Text adapter accepts, and its
\* failure is what the service returned
C1_Witness ==
  /\ rPc = "done"
  /\ rCalls = <<"image">>
  /\ ~rResult.success
  /\ TextProcessor_canProcess(rContent, rHint)
  /\ TextProcessor_process(rContent, Filename).success

\* exactly one of textContent and images is there and not empty, and
\* requiresVision tells which
OneKindOfContent(document) ==
  /\ (document.textContent = None) # (document.images = None)
  /\ document.textContent # None => Len(document.textContent[1]) > 0
  /\ document.images # None =>
       /\ Len(document.images[1]) > 0
       /\ \A i \in 1..Len(document.images[1]) : Len(document.images[1][i]) > 0
  /\ document.requiresVision <=> document.images # None

\* C2: every successful ProcessorResult of an adapter (PDF text path, PDF
\* scanned path, Word, Excel, Image, Text) carries a document with exactly one
\* of textContent and images populated and non-empty, and requiresVision is
\* true if and only if images is populated.
C2_SuccessHasOneKindOfContent ==
  /\ rAdapterResult.success => OneKindOfContent(rAdapterResult.document[1])
  /\ \A j \in Jobs :
       pLocal[j].result.success => OneKindOfContent(pLocal[j].result.document[1])

\* a scanned PDF came back with the images of its pages
C2_Witness ==
  /\ rPc = "settled"
  /\ rCalls = <<"pdf">>
  /\ rAdapterResult.success
  /\ rAdapterResult.document[1].requiresVision
  /\ Len(rAdapterResult.document[1].images[1]) = MAX_PAGES_FOR_VISION

\* C9: on every exit path of PdfProcessor.process (text-based success, scanned
\* success, zero-image failure, invalid-data-URL failure, an exception after
\* the temporary directory was created) the job's temporary directory and
\* every file in it have been deleted before the call returns.
C9_TempDirDeletedBeforeReturn ==
  \A j \in Jobs :
    pPc[j] = "returned" =>
      /\ ~DirExists(TempDir(pLocal[j].jobId))
      /\ FilesIn(TempDir(pLocal[j].jobId)) = {}

\* C10: when several PdfProcessor.process calls run interleaved, each works
\* in its own temporary directory: no call writes into the directory of,
\* reads, returns as its images or deletes a file made by another call.
C10_JobsKeepToTheirOwnFiles ==
  /\ \A t \in touched : t[1] = t[3]
  /\ \A j, k \in Jobs :
       (j # k /\ pPc[j] # "idle" /\ pPc[k] # "idle")
         => TempDir(pLocal[j].jobId) # TempDir(pLocal[k].jobId)

\* two calls are under way at once, one reading its pages while the other
\* deletes its own
C10_Witness ==
  \E j, k \in Jobs :
    /\ j # k
    /\ pPc[j] = "readFile"
    /\ Len(pLocal[j].images) > 0
    /\ pPc[k] = "unlink"
    /\ Len(pLocal[k].images) > 0
    /\ FilesIn(TempDir(pLocal[k].jobId)) # {}

----------------------------------------------------------------------------
(* Properties of the PDF processor *)

\* the call went through extractText and has returned
Extracted(j) == pPc[j] = "returned" /\ pLocal[j].after \in {"text", "images"}

TextExtraction(result) ==
  /\ result.success
  /\ result.document[1].strategy = "text-extraction"
  /\ ~result.document[1].requiresVision

\* a success of the scanned path: strategy vision with 1 to 5 images
VisionUpToFive(result) ==
  /\ result.document[1].strategy = "vision"
  /\ result.document[1].images # None
  /\ Len(result.document[1].images[1]) \in 1..MAX_PAGES_FOR_VISION

\* the two halves of C11 for a text of length n
TextDecidesStrategy(n, result) ==
  /\ n >= MIN_TEXT_LENGTH_THRESHOLD => TextExtraction(result)
  /\ n < MIN_TEXT_LENGTH_THRESHOLD =>
       /\ ~TextExtraction(result)
       /\ result.success => VisionUpToFive(result)

\* C11 as stated: a PDF whose extracted text has length at least 100 always
\* yields a success with strategy "text-extraction" and requiresVision false;
\* one whose extracted text is shorter never yields "text-extraction" and,
\* when it succeeds, yields strategy "vision" with between 1 and 5 images.
C11_TextLengthDecidesStrategy ==
  \A j \in Jobs :
    Extracted(j) => TextDecidesStrategy(pLocal[j].textLength, pLocal[j].result)

\* C11 as amended: the length that decides is that of the extracted text with
\* leading and trailing whitespace removed. At least 100 always yields a
\* success with strategy "text-extraction" and requiresVision false; less
\* never yields "text-extraction" and, on success, yields strategy "vision"
\* with between 1 and 5 images.
C11_TrimmedLengthDecidesStrategy ==
  \A j \in Jobs :
    Extracted(j) => TextDecidesStrategy(pLocal[j].trimmedLength, pLocal[j].result)

\* a text of 100 characters or more, most of it padding, went the scanned way
\* and came back as the images of five pages
C11_Witness ==
  \E j \in Jobs :
    /\ Extracted(j)
    /\ pLocal[j].textLength >= MIN_TEXT_LENGTH_THRESHOLD
    /\ pLocal[j].trimmedLength < MIN_TEXT_LENGTH_THRESHOLD
    /\ pLocal[j].result.success
    /\ Len(pLocal[j].result.document[1].images[1]) = MAX_PAGES_FOR_VISION

CorruptDocument ==
  Failure("Failed to convert PDF to images. The file may be corrupted.", <<>>)

ToolUnavailable ==
  Failure("PDF processing tools not installed. Please install poppler-utils.", <<>>)

\* C12: for a scanned PDF (extracted text below the threshold),
\* PdfProcessor.process fails with the corrupt-document error if rasterization
\* yields zero images, and fails with the tool-unavailable error (naming the
\* missing poppler tools), not the corrupt-document error, if the renderer
\* binary is missing.
C12_MissingRendererIsToolUnavailable ==
  \A j \in Jobs :
    (pPc[j] = "returned" /\ pLocal[j].after = "images") =>
      /\ (pLocal[j].convertError # PdftoppmNotFound /\ pLocal[j].images = <<>>)
           => pLocal[j].result = CorruptDocument
      /\ pLocal[j].convertError = PdftoppmNotFound
           => pLocal[j].result = ToolUnavailable
----------------------------------------------------------------------------
(* Properties of the router *)

\* the format the content names in its data: prefix, "none" when it names none
MarkerOf(content) ==
  IF startsWith(content, <<"d","a","t","a",":","a","p","p","l","i","c","a","t","i","o","n","/","p","d","f">>) THEN "pdf"
  ELSE IF startsWith(content, <<"d","a","t","a",":","a","p","p","l","i","c","a","t","i","o","n","/","v","n","d",".","o","p","e","n","x","m","l","f","o","r","m","a","t","s","-","o","f","f","i","c","e","d","o","c","u","m","e","n","t",".","w","o","r","d","p","r","o","c","e","s","s","i","n","g","m","l">>)
  THEN "word"
  ELSE IF \/ startsWith(content, <<"d","a","t","a",":","a","p","p","l","i","c","a","t","i","o","n","/","v","n","d",".","o","p","e","n","x","m","l","f","o","r","m","a","t","s","-","o","f","f","i","c","e","d","o","c","u","m","e","n","t",".","s","p","r","e","a","d","s","h","e","e","t","m","l">>)
          \/ startsWith(content, <<"d","a","t","a",":","a","p","p","l","i","c","a","t","i","o","n","/","v","n","d",".","m","s","-","e","x","c","e","l">>)
  THEN "excel"
  ELSE IF startsWith(content, <<"d","a","t","a",":","i","m","a","g","e","/">>) THEN "image"
  ELSE IF startsWith(content, <<"d","a","t","a",":","t","e","x","t","/">>) THEN "text"
  ELSE "none"

\* the format the hint names, "none" when there is no hint or it names none
HintFormat(hint) ==
  IF hint = Null THEN "none"
  ELSE IF hint = PdfMime THEN "pdf"
  ELSE IF hint = WordMime \/ hint = <<"a","p","p","l","i","c","a","t","i","o","n","/","m","s","w","o","r","d">> THEN "word"
  ELSE IF hint = ExcelMime \/ hint = <<"a","p","p","l","i","c","a","t","i","o","n","/","v","n","d",".","m","s","-","e","x","c","e","l">> THEN "excel"
  ELSE IF startsWith(hint, <<"i","m","a","g","e","/">>) THEN "image"
  ELSE IF startsWith(hint, <<"t","e","x","t","/">>) THEN "text"
  ELSE "none"

\* C13: the Router does not trust mimeHint alone: whenever the content carries
\* its own format marker (a data: prefix naming PDF, Word, Excel, an image or
\* text) and mimeHint names a different format, the type returned by
\* detectType and the adapter chosen by process are those of the content
\* marker, not of the hint.
C13_ContentMarkerBeatsHint ==
  ( /\ rPc # "idle"
    /\ MarkerOf(rContent) # "none"
    /\ HintFormat(rHint) \notin {"none", MarkerOf(rContent)} )
  => /\ rCalls = <<MarkerOf(rContent)>>
     /\ MarkerOf(rContent) \in {"pdf", "image", "text"}
          => rDetected = MarkerOf(rContent)

\* none of PDF, Word, Excel and Image accepts the request
NoSpecificAdapter(content, hint) ==
  \A p \in {"pdf", "word", "excel", "image"} : ~canProcess(p, content, hint)

\* C14 as stated: the Text adapter is a catch-all: for every (content,
\* mimeHint) for which the canProcess of PDF, Word, Excel and Image are all
\* false, TextProcessor.canProcess is true, so process dispatches such content
\* to the Text adapter.
C14_TextIsCatchAll ==
  (rPc # "idle" /\ NoSpecificAdapter(rContent, rHint)) => rCalls = <<"text">>

\* the content is not a data: URL, or it is a text one, or the hint says text
PlainOrText(content, hint) ==
  \/ MarkerOf(content) = "text"
  \/ HintFormat(hint) = "text"
  \/ (Len(content) < 5 \/ SubSeq(content, 1, 5) # <<"d","a","t","a",":">>)

\* C14 as amended: the Text adapter is the fallback for plain text only: of
\* the (content, mimeHint) that PDF, Word, Excel and Image all reject, process
\* dispatches to the Text adapter those whose content is no data: URL or a
\* data:text/ one, or whose hint starts with text/; the others, data: URLs
\* of some other type, are accepted by no adapter and process returns the
\* unsupported-format failure without calling any.
C14_TextIsFallbackForPlainText ==
  (rPc # "idle" /\ NoSpecificAdapter(rContent, rHint)) =>
    IF PlainOrText(rContent, rHint)
    THEN rCalls = <<"text">>
    ELSE rCalls = <<>> /\ rResult = NoProcessorFound

\* a text data URL that no specific adapter accepts went to the Text adapter
C14_Witness ==
  /\ rPc = "done"
  /\ NoSpecificAdapter(rContent, rHint)
  /\ MarkerOf(rContent) = "text"
  /\ rHint = Null
  /\ rCalls = <<"text">>
  /\ rResult.success

\* C15: detectType(content, mimeHint) returns exactly one of pdf, image, text,
\* unknown for every input, by first match in this order: PDF content marker
\* or PDF hint gives pdf; image content marker or image hint gives image; text
\* content marker, text hint, or content without any data: marker gives text;
\* everything else gives unknown.
C15_DetectTypeFirstMatch ==
  rPc # "idle" =>
    LET pdf   == MarkerOf(rContent) = "pdf" \/ HintFormat(rHint) = "pdf"
        image == MarkerOf(rContent) = "image" \/ HintFormat(rHint) = "image"
        text  == PlainOrText(rContent, rHint)
    IN  /\ rDetected \in {"pdf", "image", "text", "unknown"}
        /\ rDetected = "pdf" <=> pdf
        /\ rDetected = "image" <=> (~pdf /\ image)
        /\ rDetected = "text" <=> (~pdf /\ ~image /\ text)
        /\ rDetected = "unknown" <=> (~pdf /\ ~image /\ ~text)

\* a text data URL came with an image hint: image is matched before text
C15_Witness ==
  /\ rPc # "idle"
  /\ MarkerOf(rContent) = "text"
  /\ HintFormat(rHint) = "image"
  /\ rDetected = "image"
----------------------------------------------------------------------------
(* Properties of the image processor *)

\* an image blob: data:image/<subtype>;base64,<payload>
IsImageBlob(head) ==
  /\ startsWith(head, <<"d","a","t","a",":","i","m","a","g","e","/">>)
  /\ indexOfChar(head, ";") > 11
  /\ startsWith(substringFrom(head, indexOfChar(head, ";")), <<";","b","a","s","e","6","4",",">>)

\* the MIME subtype of an image blob
Subtype(head) == substring(head, 11, indexOfChar(head, ";"))

AllowList == { <<"p","n","g">>, <<"j","p","e","g">>, <<"j","p","g">>, <<"g","i","f">>, <<"w","e","b","p">> }

\* the number of characters of the blob after "base64,"
EncodedLength(head, more) == Len(head) - (indexOfChar(head, ",") + 1) + more

\* ceil(len(encoded)*3/4)
DecodedSize(head, more) == (EncodedLength(head, more) * 3 + 3) \div 4

UnsupportedFormat(result) ==
  ~result.success /\ result.error[1][1] = "Unsupported image type: "

PayloadTooLarge(result) ==
  ~result.success /\ result.error[1][1] = "Image too large"

\* C16: ImageProcessor.process on an image blob succeeds if and only if the
\* blob's MIME subtype is in the allow-list (png, jpeg, jpg, gif, webp) and
\* ceil(len(encoded)*3/4) is at most 20*1024*1024. On success images is the
\* one-element list holding the original blob unchanged, strategy is vision
\* and requiresVision is true; a subtype outside the allow-list fails with
\* UnsupportedFormat and a size above the limit fails with PayloadTooLarge.
C16_ImageAcceptedIffAllowedAndSmall ==
  (iResult # Pending /\ IsImageBlob(iHead)) =>
    LET allowed == Subtype(iHead) \in AllowList
        small   == DecodedSize(iHead, iMore) <= 20 * 1024 * 1024
    IN  /\ iResult.success <=> (allowed /\ small)
        /\ iResult.success =>
             /\ iResult.document[1].images = Some(<<Padded(iHead, iMore)>>)
             /\ iResult.document[1].strategy = "vision"
             /\ iResult.document[1].requiresVision
        /\ ~allowed => UnsupportedFormat(iResult)
        /\ (allowed /\ ~small) => PayloadTooLarge(iResult)

----------------------------------------------------------------------------
(* Properties of the name normalizer *)

\* C17: NameNormalizer.normalize is idempotent: for every input x,
\* normalize(normalize(x)) equals normalize(x).
C17_NameNormalizeIdempotent ==
  nmPc = "twice" => nmAgain = nmOut

\* the words of a string: its maximal runs of characters that are not
\* whitespace
RECURSIVE WordsOf(_)
WordsOf(s) ==
  LET first == {i \in 1..Len(s) : s[i] \notin WhiteSpace}
  IN  IF first = {} THEN <<>>
      ELSE LET from == Min(first)
               ends == {i \in from..Len(s) : s[i] \in WhiteSpace}
               to   == IF ends = {} THEN Len(s) ELSE Min(ends) - 1
           IN  <<SubSeq(s, from, to)>> \o WordsOf(SubSeq(s, to + 1, Len(s)))

\* first character upper case, the others lower case
TitleCased(w) ==
  IF w = <<>> THEN w ELSE toUpperCase(SubSeq(w, 1, 1)) \o toLowerCase(SubSeq(w, 2, Len(w)))

RECURSIVE HyphenSegments(_)
HyphenSegments(w) ==
  IF \A i \in 1..Len(w) : w[i] # "-" THEN <<w>>
  ELSE LET at == Min({i \in 1..Len(w) : w[i] = "-"})
       IN  <<SubSeq(w, 1, at - 1)>> \o HyphenSegments(SubSeq(w, at + 1, Len(w)))

RECURSIVE Hyphenated(_)
Hyphenated(segments) ==
  IF Len(segments) = 1 THEN TitleCased(segments[1])
  ELSE TitleCased(segments[1]) \o <<"-">> \o Hyphenated(Tail(segments))

\* the special prefix a word starts with and goes on after, <<>> when none
PrefixOf(w) ==
  LET low == toLowerCase(w)
  IN  IF Len(w) > 2 /\ SubSeq(low, 1, 2) = <<"m","c">> THEN <<"m","c">>
      ELSE IF Len(w) > 3 /\ SubSeq(low, 1, 3) = <<"m","a","c">> THEN <<"m","a","c">>
      ELSE IF Len(w) > 2 /\ SubSeq(low, 1, 2) = <<"o","'">> THEN <<"o","'">>
      ELSE <<>>

\* the word the rules of the claim give for the word at position k of a name
RewrittenWord(w, k) ==
  IF PrefixOf(w) # <<>>
  THEN TitleCased(PrefixOf(w)) \o TitleCased(SubSeq(w, Len(PrefixOf(w)) + 1, Len(w)))
  ELSE IF k > 1 /\ toLowerCase(w) \in lowercaseWords THEN toLowerCase(w)
  ELSE IF \E i \in 1..Len(w) : w[i] = "-" THEN Hyphenated(HyphenSegments(w))
  ELSE TitleCased(w)

RECURSIVE Rewritten(_, _)
Rewritten(ws, k) ==
  IF k > Len(ws) THEN <<>>
  ELSE IF k = Len(ws) THEN RewrittenWord(ws[k], k)
  ELSE RewrittenWord(ws[k], k) \o <<" ">> \o Rewritten(ws, k + 1)

\* C20: NameNormalizer.normalize collapses whitespace and rewrites each word
\* by the first rule that applies, in this priority: a special prefix (mc,
\* mac, o') followed by more characters gives the capitalized prefix plus the
\* capitalized remainder; a known particle that is not the first word gives
\* the lowercase particle; a hyphenated word gives each hyphen segment
\* Title-Cased; any other word is Title-Cased. So normalize("mcdonald") is
\* "McDonald", normalize("o'brien") is "O'Brien" and
\* normalize("jean-claude van damme") is "Jean-Claude van Damme".
C20_WordsRewrittenByFirstRule ==
  (nmPc # "idle" /\ nmIn # Null /\ WordsOf(nmIn) # <<>>) =>
    /\ nmOut = Rewritten(WordsOf(nmIn), 1)
    /\ nmIn = <<"m","c","d","o","n","a","l","d">> => nmOut = <<"M","c","D","o","n","a","l","d">>
    /\ nmIn = <<"o","'","b","r","i","e","n">> => nmOut = <<"O","'","B","r","i","e","n">>
    /\ nmIn = <<"j","e","a","n","-","c","l","a","u","d","e"," ","v","a","n"," ","d","a","m","m","e">> => nmOut = <<"J","e","a","n","-","C","l","a","u","d","e"," ","v","a","n"," ","D","a","m","m","e">>

\* the name of the third example went through normalize
C20_Witness ==
  /\ nmPc = "once"
  /\ nmIn = <<"j","e","a","n","-","c","l","a","u","d","e"," ","v","a","n"," ","d","a","m","m","e">>
  /\ nmOut = <<"J","e","a","n","-","C","l","a","u","d","e"," ","v","a","n"," ","D","a","m","m","e">>

----------------------------------------------------------------------------
(* Properties of the normalized output *)

\* C18: under the default configuration, every contact name in the output of
\* normalize has passed Title-Case normalization: for every input name
\* string, the output name n satisfies NameNormalizer.normalize(n) = n.
C18_OutputNamesAreNormalized ==
  (DefaultRun /\ nRound = 1) =>
    \A i \in 1..Len(NData.contacts) :
      NData.contacts[i].name # Null =>
        NameNormalizer_normalize(NData.contacts[i].name) = NData.contacts[i].name

\* the phones of a list of records
Phones(rows) == {rows[i].phone : i \in 1..Len(rows)}

\* C19: under the default configuration, every non-null phone in the output
\* of normalize, in contacts (also after dedup merging), emergency_contacts
\* and locations, has passed formatting: it is a value p with
\* PhoneNormalizer.normalize(p) = p.
C19_OutputPhonesAreFormatted ==
  (DefaultRun /\ nRound = 1) =>
    \A p \in Phones(NData.contacts) \cup Phones(NData.emergency_contacts)
               \cup Phones(NData.locations) :
      p # Null => PhoneNormalizer_normalize(p) = p
----------------------------------------------------------------------------
(* Properties of the phone normalizer *)

\* the digits of a phone, in order
StrippedDigits(phone) ==
  IF phone = Null THEN <<>>
  ELSE SelectSeq(phone, LAMBDA c : c \in {"0","1","2","3","4","5","6","7","8","9"})

\* (AAA) EEE-SSSS
TenDigitFormat(d) ==
  <<"(">> \o SubSeq(d, 1, 3) \o <<")", " ">> \o SubSeq(d, 4, 6) \o <<"-">> \o SubSeq(d, 7, 10)

\* what the branch on the digit count gives
ByDigitCount(d) ==
  IF Len(d) = 10 THEN TenDigitFormat(d)
  ELSE IF Len(d) = 11 /\ d[1] = "1" THEN TenDigitFormat(SubSeq(d, 2, 11))
  ELSE IF Len(d) > 11 THEN <<"+">> \o d
  ELSE IF Len(d) = 7 THEN SubSeq(d, 1, 3) \o <<"-">> \o SubSeq(d, 4, 7)
  ELSE d

DigitCountValid(phone) ==
  Len(StrippedDigits(phone)) >= 7 /\ Len(StrippedDigits(phone)) <= 15

----------------------------------------------------------------------------
(* Properties of the result of normalize *)

\* normalize returned a result, whatever the configuration and the round
Returned1 == NormalizeReturned /\ ~nOut.threw

\* C22: for every input and configuration, the stats returned by normalize
\* satisfy: totalContacts equals the number of contacts in the returned data
\* (counted after deduplication), duplicatesRemoved equals the input contact
\* count minus the output contact count (0 when deduplicate is disabled), and
\* each of namesNormalized, phonesNormalized, rolesNormalized and
\* departmentsInferred is between 0 and the input contact count.
C22_StatsCountTheResult ==
  Returned1 =>
    LET given == Len(nArgValue.contacts)
        kept  == Len(NData.contacts)
    IN  /\ nOut.stats.totalContacts = kept
        /\ nOut.stats.duplicatesRemoved = given - kept
        /\ ~nConfig.deduplicate => nOut.stats.duplicatesRemoved = 0
        /\ \A f \in {"namesNormalized", "phonesNormalized", "rolesNormalized",
                     "departmentsInferred"} :
             nOut.stats[f] >= 0 /\ nOut.stats[f] <= given

\* two contacts were merged into one, and the total is the one that is left
C22_Witness ==
  /\ Returned1
  /\ Len(nArgValue.contacts) = 2
  /\ Len(NData.contacts) = 1
  /\ nOut.stats.totalContacts = 1
  /\ nOut.stats.duplicatesRemoved = 1

\* rows after are rows before with nothing but the phone changed
OnlyPhonesChanged(before, after) ==
  /\ Len(after) = Len(before)
  /\ \A i \in 1..Len(before) : [after[i] EXCEPT !.phone = before[i].phone] = before[i]

\* C23: normalize leaves production_info unchanged and changes nothing in
\* emergency_contacts and locations except the phone field: both lists keep
\* their length and order, duplicates among them are not merged, and every
\* type, name and address is unchanged, for every input and configuration.
C23_SideListsKeepAllButPhones ==
  Returned1 =>
    /\ NData.production_info = nArgValue.production_info
    /\ OnlyPhonesChanged(nArgValue.emergency_contacts, NData.emergency_contacts)
    /\ OnlyPhonesChanged(nArgValue.locations, NData.locations)

\* lists with a repeated entry went through, and their phones were rewritten
C23_Witness ==
  /\ Returned1
  /\ Len(NData.emergency_contacts) = 3
  /\ NData.emergency_contacts[1] = NData.emergency_contacts[3]
  /\ NData.emergency_contacts[1].phone # nArgValue.emergency_contacts[1].phone
  /\ Len(NData.locations) = 3
  /\ NData.locations[1].phone # nArgValue.locations[1].phone

\* how many issues of the result are about field
IssuesAbout(field) ==
  Cardinality({k \in 1..Len(nOut.issues) : nOut.issues[k].field = field})

\* C25: per contact, normalize records a name issue exactly when the
\* post-normalization name fails the name validity predicate, a phone issue
\* exactly when the contact had a phone and its post-normalization phone fails
\* the phone validity predicate, and an email issue exactly when the
\* lowercased email fails the format check. Every issue has type warning,
\* never error, and the contact stays in the output with the value that
\* failed. Stated for the calls that merged no contacts, where output contact
\* i is input contact i after normalization.
C25_IssueExactlyWhenInvalid ==
  (DefaultRun /\ nRound = 1 /\ Len(NData.contacts) = Len(nArgValue.contacts)) =>
    LET given == nArgValue.contacts
        out   == NData.contacts
        at    == 1..Len(given)
    IN  /\ IssuesAbout("name") =
             Cardinality({i \in at : ~NameNormalizer_isValid(out[i].name)})
        /\ IssuesAbout("phone") =
             Cardinality({i \in at : /\ given[i].phone # Null
                                     /\ ~PhoneNormalizer_isValid(out[i].phone)})
        /\ IssuesAbout("email") =
             Cardinality({i \in at : /\ given[i].email # Null
                                     /\ ~isValidEmail(toLowerCase(given[i].email))})
        /\ \A k \in 1..Len(nOut.issues) : nOut.issues[k].type = "warning"
----------------------------------------------------------------------------
(* Properties of extractContacts *)

AiCalls == {"extractFromText", "extractFromImages"}

\* the request is over
Over == ePc \in {"returned", "raised"}

\* C24: extractContacts runs its steps strictly in the order Router process,
\* then exactly one AI extraction call, then normalize. When process returns a
\* failure, no AI call and no normalization happen and extractContacts raises
\* an error to the caller. The vision extraction is the one called exactly
\* when the processed document has requiresVision true with at least one
\* image; otherwise the text extraction is called with the document's text.
C24_ProcessThenOneExtractionThenNormalize ==
  /\ Len(eTrace) <= 3
  /\ Len(eTrace) >= 1 => eTrace[1] = "process"
  /\ Len(eTrace) >= 2 =>
       /\ eTrace[2] \in AiCalls
       /\ rPc = "done" /\ rResult.success
       /\ LET document == rResult.document[1]
              vision   == /\ document.requiresVision
                          /\ document.images # None
                          /\ Len(document.images[1]) >= 1
          IN  /\ eTrace[2] = "extractFromImages" <=> vision
              /\ vision => eGiven = document.images
              /\ ~vision => eGiven = document.textContent
  /\ Len(eTrace) = 3 => eTrace[3] = "normalize"
  /\ ePc = "returned" => Len(eTrace) = 3
  /\ (Over /\ rResult.success) => Len(eTrace) >= 2
  /\ (Over /\ ~rResult.success) => (eTrace = <<"process">> /\ ePc = "raised")

\* a scanned PDF went to the vision extraction, and its answer was normalized
\* and returned
C24_Witness ==
  /\ ePc = "returned"
  /\ rCalls = <<"pdf">>
  /\ eTrace = <<"process", "extractFromImages", "normalize">>
  /\ eOut[1].stats.duplicatesRemoved = 1
----------------------------------------------------------------------------
(* Properties of the Text adapter's truncation *)

\* the target length: the maximum less the 100 characters reserved
TargetLength == 50000 - 100

\* the 0-based index of the latest sub in text that starts at or before the
\* target length, -1 when there is none
LatestBreak(text, sub) ==
  LET hits == {i \in 0..TargetLength :
                 /\ i + Len(sub) <= Len(text)
                 /\ \A k \in 1..Len(sub) : text[i + k] = sub[k]}
  IN  IF hits = {} THEN -1 ELSE CHOOSE m \in hits : \A h \in hits : h <= m

\* a cut that is there and lies at or beyond 70% of the target length
FarEnough(cut) == cut # -1 /\ cut * 10 >= TargetLength * 7

\* where the rules of the claim cut a text longer than the maximum
ClaimedCut(text) ==
  LET paragraph == LatestBreak(text, <<"\n", "\n">>)
      line      == LatestBreak(text, <<"\n">>)
      period    == LatestBreak(text, <<".", " ">>)
  IN  IF FarEnough(paragraph) THEN paragraph
      ELSE IF FarEnough(line) THEN line
      ELSE IF period # -1 /\ FarEnough(period + 1) THEN period + 1
      ELSE TargetLength

\* the text a successful call returned
Returned2 == tResult.document[1].textContent[1]

\* C26 as stated: for text longer than the maximum, the Text adapter's smart
\* truncation cuts at the latest paragraph break at or before the target
\* length if that break lies at or beyond 70% of the target; otherwise at the
\* latest line break under the same condition; otherwise just after the
\* latest sentence terminator ". " under the same condition; otherwise
\* exactly at the target length. The result is always a prefix of the input
\* followed by the truncation notice, and text not longer than the maximum is
\* returned unchanged without a notice.
C26_CutAtBreakPrefixAndNotice ==
  (tResult # Pending /\ tResult.success) =>
    IF Len(tIn) <= 50000 THEN Returned2 = tIn
    ELSE LET cut  == ClaimedCut(tIn)
             kept == Len(Returned2) - Len(TruncationNotice)
         IN  /\ kept >= 0
             /\ kept <= cut
             /\ \A i \in 1..kept : Returned2[i] = tIn[i]
             /\ \A i \in (kept + 1)..cut : tIn[i] \in WhiteSpace
             /\ SubSeq(Returned2, kept + 1, Len(Returned2)) = TruncationNotice

\* s without the whitespace at its two ends
Stripped(s) ==
  LET inked == {i \in 1..Len(s) : s[i] \notin WhiteSpace}
  IN  IF inked = {} THEN <<>> ELSE SubSeq(s, Min(inked), Max(inked))

\* C26 amended: the cut is found as stated (the sentence rule applies when the
\* position just after the period lies at or beyond 70% of the target), and
\* the result is the input up to the cut with the whitespace at both of its
\* ends removed, followed by the truncation notice; text not longer than the
\* maximum is returned unchanged without a notice.
C26_CutAtBreakTrimmedAndNotice ==
  (tResult # Pending /\ tResult.success) =>
    IF Len(tIn) <= 50000 THEN Returned2 = tIn
    ELSE Returned2 = Stripped(SubSeq(tIn, 1, ClaimedCut(tIn))) \o TruncationNotice

\* a long text with a paragraph break too early, a line break far enough and
\* a later sentence end was cut at the line break
C26_Witness ==
  /\ tResult # Pending
  /\ tResult.success
  /\ Len(tIn) = 50001
  /\ LatestBreak(tIn, <<"\n", "\n">>) = 34929
  /\ LatestBreak(tIn, <<"\n">>) = 34940
  /\ LatestBreak(tIn, <<".", " ">>) = 49900
  /\ Len(Returned2) = 34940 + Len(TruncationNotice)

\* C27: the Text adapter enforces its maximum length on what it returns: for
\* every input, the textContent of a successful result, truncation notice
\* included, is at most 50,000 characters long (the 100 characters reserved
\* below the maximum are enough room for the notice).
C27_ReturnedTextWithinMaximum ==
  (tResult # Pending /\ tResult.success) =>
    /\ Len(Returned2) <= 50000
    /\ Len(TruncationNotice) <= 100
----------------------------------------------------------------------------
(* Properties of the role normalizer *)

\* s with every character that starts the string or follows a space in upper
\* case and every other character in lower case
TitleCasedWords(s) ==
  LET piece(i) == IF i = 1 \/ s[i - 1] = " "
                  THEN toUpperCase(<<s[i]>>) ELSE toLowerCase(<<s[i]>>)
      glued[i \in 0..Len(s)] == IF i = 0 THEN <<>> ELSE glued[i - 1] \o piece(i)
  IN  glued[Len(s)]

\* the table entries whose abbreviation is the role
ExactEntries(role) == {k \in 1..Len(ROLE_MAPPINGS) : ROLE_MAPPINGS[k][1] = role}

\* the table entries whose abbreviation occurs in the role
ContainedEntries(role) ==
  {k \in 1..Len(ROLE_MAPPINGS) :
     \E at \in 1..Len(role) :
        /\ at + Len(ROLE_MAPPINGS[k][1]) - 1 <= Len(role)
        /\ SubSeq(role, at, at + Len(ROLE_MAPPINGS[k][1]) - 1) = ROLE_MAPPINGS[k][1]}

\* the role of the call, trimmed and lowercased
LoweredRole == toLowerCase(Stripped(rlIn))

\* a call was made with a role that is not blank
RoleReturned == rlOut # None /\ rlIn # Null /\ Stripped(rlIn) # <<>>

\* C28: RoleNormalizer.normalizeRole returns the full name mapped to the
\* trimmed, lowercased role when the table has that exact abbreviation;
\* otherwise the full name of the first table entry, in table order, whose
\* abbreviation is a substring of the lowercased role; otherwise the trimmed
\* role Title-Cased word by word, which differs from the input in letter case
\* only.
C28_ExactThenFirstContainedThenTitleCase ==
  RoleReturned =>
    IF ExactEntries(LoweredRole) # {}
    THEN \E k \in ExactEntries(LoweredRole) : rlOut[1] = ROLE_MAPPINGS[k][2]
    ELSE IF ContainedEntries(LoweredRole) # {}
    THEN rlOut[1] = ROLE_MAPPINGS[Min(ContainedEntries(LoweredRole))][2]
    ELSE /\ rlOut[1] = TitleCasedWords(Stripped(rlIn))
         /\ toLowerCase(rlOut[1]) = LoweredRole

\* the same without the roles that name an inherited property of the table
\* object and without the ligature
C28_OutsideInheritedAndLigature ==
  (RoleReturned /\ InheritedProperty(LoweredRole) = Null
                /\ \A i \in 1..Len(rlIn) : rlIn[i] # LigatureFi) =>
    IF ExactEntries(LoweredRole) # {}
    THEN \E k \in ExactEntries(LoweredRole) : rlOut[1] = ROLE_MAPPINGS[k][2]
    ELSE IF ContainedEntries(LoweredRole) # {}
    THEN rlOut[1] = ROLE_MAPPINGS[Min(ContainedEntries(LoweredRole))][2]
    ELSE /\ rlOut[1] = TitleCasedWords(Stripped(rlIn))
         /\ toLowerCase(rlOut[1]) = LoweredRole
----------------------------------------------------------------------------
(* Properties of department inference *)

\* sub occurs in s
Occurs(sub, s) ==
  \E at \in 1..Len(s) :
     at + Len(sub) - 1 <= Len(s) /\ SubSeq(s, at, at + Len(sub) - 1) = sub

\* the departments of the table, by position, one of whose keywords occurs
\* in the lowercased role
MatchingDepartments(role) ==
  {d \in 1..Len(DEPARTMENT_KEYWORDS) :
     \E k \in 1..Len(DEPARTMENT_KEYWORDS[d][2]) :
        Occurs(DEPARTMENT_KEYWORDS[d][2][k], toLowerCase(role))}

\* a contact without a department: null or the empty string
NoDepartment(contact) == contact.department = Null \/ contact.department = <<>>

\* normalize returned a result that merged no contacts, so that output
\* contact i is input contact i after normalization
ReturnedUnmerged == Returned1 /\ Len(NData.contacts) = Len(nArgValue.contacts)

----------------------------------------------------------------------------
(* Properties of the Deduplicator's matching *)

\* two contacts with equal normalized names: the same words, letter case aside
SameName(a, b) == WordsOf(toLowerCase(a.name)) = WordsOf(toLowerCase(b.name))

\* two contacts that share a phone: both have digits, and the same ones
SharePhone(a, b) ==
  /\ StrippedDigits(a.phone) # <<>>
  /\ StrippedDigits(a.phone) = StrippedDigits(b.phone)

\* two contacts that share an email, letter case and surrounding spaces aside
ShareEmail(a, b) ==
  /\ a.email # Null /\ b.email # Null
  /\ Stripped(toLowerCase(a.email)) # <<>>
  /\ Stripped(toLowerCase(a.email)) = Stripped(toLowerCase(b.email))

\* the same name and the same phone or email
SamePerson(a, b) == SameName(a, b) /\ (SharePhone(a, b) \/ ShareEmail(a, b))

\* the input contacts linked to contact i by a chain of such pairs
LinkedTo(i) ==
  LET n == Len(dIn)
      within[k \in 0..n] ==
        IF k = 0 THEN {i}
        ELSE within[k - 1] \cup
               {j \in 1..n : \E h \in within[k - 1] : SamePerson(dIn[h], dIn[j])}
  IN  within[n]

\* C30: Deduplicator.deduplicate merges contacts with the same name and the
\* same phone or email: any two input contacts whose normalized names are
\* equal and that share a phone (equal digits) or an email (equal ignoring
\* case and surrounding spaces) end up in one output record. Hence there are
\* at most as many output records as there are groups of linked input
\* contacts, and a list whose contacts are all linked gives one record.
C30_SharedPhoneOrEmailMerged ==
  dPc = "returned" =>
    Len(dOut.contacts) <= Cardinality({LinkedTo(i) : i \in 1..Len(dIn)})

\* the same for the pairs that share a phone of at least 7 digits, or that
\* both have no such phone and share an email
C30_SameKeyMerged ==
  (/\ dPc = "returned"
   /\ \A i, j \in 1..Len(dIn) :
        SamePerson(dIn[i], dIn[j]) =>
          \/ Len(StrippedDigits(dIn[i].phone)) >= 7 /\ SharePhone(dIn[i], dIn[j])
          \/ /\ Len(StrippedDigits(dIn[i].phone)) < 7
             /\ Len(StrippedDigits(dIn[j].phone)) < 7
             /\ ShareEmail(dIn[i], dIn[j]))
    => Len(dOut.contacts) <= Cardinality({LinkedTo(i) : i \in 1..Len(dIn)})
====
